---- MODULE Spec2Model ----
(***************************************************************************)
(* Model of the v8.0 surname-position engine                               *)
(* (src/src/surname_identifier_v8.py, src/src/config_v8.py).               *)
(*                                                                         *)
(* Numbers.  The scorers add Python floats; rounding decides the outcome   *)
(* when a gap sits exactly on a threshold.  A float x is therefore carried *)
(* exactly, as the pair [h, e] with x = (h * 2^56 + e) / (100 * 2^56):     *)
(* h is the decimal value in hundredths and e the distance of the double   *)
(* from it.  Confidences are carried in units of 1/10000 (rounded down),   *)
(* which preserves every comparison with the two-decimal thresholds.       *)
(*                                                                         *)
(* Names.  A name is the sequence of its whitespace-separated tokens; the  *)
(* lookups of the data tables (surname set, frequency rank, Western        *)
(* features, pinyin segmentation, affiliation keywords) are tabulated for  *)
(* a lexicon of sample tokens.                                             *)
(***************************************************************************)
EXTENDS Integers, Sequences, FiniteSets, TLC

\* ------------------------------------------------------------------ bounds
MaxTokens == 3
MaxRecords == 3
MaxPasses == 2

\* Largest syllable count of a token handed to a scorer.
MaxSyllables == 3

\* ------------------------------------------------------- float arithmetic
\* 2^56 modulo 25600 (= 100 * 256), used to find where h/100 sits on the
\* grid of doubles.
TwoPow56Mod == ((2^28 % 25600) * (2^28 % 25600)) % 25600

F(h, e) == [h |-> h, e |-> e]

FNeg(x) == F(-x.h, -x.e)

FIsNeg(x) == x.h < 0 \/ (x.h = 0 /\ x.e < 0)

FAbs(x) == IF FIsNeg(x) THEN FNeg(x) ELSE x

FLess(a, b) == a.h < b.h \/ (a.h = b.h /\ a.e < b.e)

FGeq(a, b) == ~FLess(a, b)

FBelow(x, b) == x.h < b \/ (x.h = b /\ x.e < 0)

\* Spacing of the doubles around a non-negative x, in units of 2^-56/100.
FUlp(x) ==
    IF x.h <= 12 THEN 100
    ELSE IF FBelow(x, 25) THEN 200
    ELSE IF FBelow(x, 50) THEN 400
    ELSE IF FBelow(x, 100) THEN 800
    ELSE IF FBelow(x, 200) THEN 1600
    ELSE IF FBelow(x, 400) THEN 3200
    ELSE IF FBelow(x, 800) THEN 6400
    ELSE 12800

\* Round a non-negative exact value x to the nearest double, ties to even:
\* U is the spacing of the doubles around x, q is x modulo 256 spacings'
\* worth of the finest grid, r the distance of x above the double below it.
FRoundBy(x, U, q, r) ==
    IF r = 0 THEN x
    ELSE IF 2 * r < U THEN F(x.h, x.e - r)
    ELSE IF 2 * r > U THEN F(x.h, x.e + (U - r))
    ELSE IF q % (2 * U) = r THEN F(x.h, x.e - r)
    ELSE F(x.h, x.e + (U - r))

FRoundOn(x, U, q) == FRoundBy(x, U, q, q % U)

FRoundMag(x) ==
    FRoundOn(x, FUlp(x), (((x.h * TwoPow56Mod + x.e) % 25600) + 25600) % 25600)

FRound(x) == IF FIsNeg(x) THEN FNeg(FRoundMag(FNeg(x))) ELSE FRoundMag(x)

\* The double denoted by a decimal literal of h hundredths.
Lit(h) == FRound(F(h, 0))

FAdd(a, b) == FRound(F(a.h + b.h, a.e + b.e))

FSub(a, b) == FRound(F(a.h - b.h, a.e - b.e))

Min(a, b) == IF a <= b THEN a ELSE b

Max(a, b) == IF a >= b THEN a ELSE b

\* floor(10000 / (1 + exp(-x))) for x = 0.00, 0.05, ..., 2.95.
SigmoidTable ==
    << 5000, 5124, 5249, 5374, 5498, 5621, 5744, 5866, 5986, 6106,
       6224, 6341, 6456, 6570, 6681, 6791, 6899, 7005, 7109, 7211,
       7310, 7407, 7502, 7595, 7685, 7772, 7858, 7941, 8021, 8099,
       8175, 8249, 8320, 8388, 8455, 8519, 8581, 8641, 8698, 8754,
       8807, 8859, 8909, 8956, 9002, 9046, 9088, 9129, 9168, 9205,
       9241, 9275, 9308, 9340, 9370, 9399, 9426, 9453, 9478, 9502 >>

\* sigmoid of a non-negative float, in units of 1/10000.  Every gap is
\* within a few ulps of a multiple of 0.05; from 2.95 on the value is above
\* both caps (0.95 and 0.9) and only ever used through min(., cap).
sigmoid(x) ==
    IF x.h >= 295 THEN SigmoidTable[60] ELSE SigmoidTable[(x.h \div 5) + 1]

\* ------------------------------------------------------------ config_v8
\* Priors and unknown-thresholds in hundredths; the batch-consistency
\* confidences in units of 1/10000.
CROSSREF_CONFIG ==
    [ chinese_prior_fam |-> 30, chinese_prior_giv |-> 10,
      western_prior_fam |-> 10, western_prior_giv |-> 50,
      mixed_prior_fam |-> 20, mixed_prior_giv |-> 30,
      threshold_cn_unknown |-> 40, threshold_west_unknown |-> 20,
      threshold_mixed_unknown |-> 30,
      person_conf_thresh |-> 7000, person_override_thresh |-> 6000,
      person_override_conf |-> 7500,
      pub_conf_thresh |-> 7000, pub_override_thresh |-> 5000,
      pub_override_conf |-> 6500, pub_dominance_min_diff |-> 2 ]

ORCID_CONFIG ==
    [ chinese_prior_fam |-> 30, chinese_prior_giv |-> 10,
      western_prior_fam |-> 10, western_prior_giv |-> 50,
      mixed_prior_fam |-> 20, mixed_prior_giv |-> 30,
      threshold_cn_unknown |-> 40, threshold_west_unknown |-> 20,
      threshold_mixed_unknown |-> 30,
      person_conf_thresh |-> 6000, person_override_thresh |-> 5000,
      person_override_conf |-> 8000,
      pub_conf_thresh |-> 7000, pub_override_thresh |-> 5000,
      pub_override_conf |-> 6500, pub_dominance_min_diff |-> 2 ]

ISTINA_CONFIG ==
    [ chinese_prior_fam |-> 50, chinese_prior_giv |-> 10,
      western_prior_fam |-> 20, western_prior_giv |-> 30,
      mixed_prior_fam |-> 30, mixed_prior_giv |-> 20,
      threshold_cn_unknown |-> 50, threshold_west_unknown |-> 30,
      threshold_mixed_unknown |-> 40,
      person_conf_thresh |-> 6500, person_override_thresh |-> 5500,
      person_override_conf |-> 7000,
      pub_conf_thresh |-> 6500, pub_override_thresh |-> 5000,
      pub_override_conf |-> 6000, pub_dominance_min_diff |-> 2 ]

DEFAULT_CONFIG ==
    [ chinese_prior_fam |-> 30, chinese_prior_giv |-> 20,
      western_prior_fam |-> 20, western_prior_giv |-> 40,
      mixed_prior_fam |-> 25, mixed_prior_giv |-> 25,
      threshold_cn_unknown |-> 40, threshold_west_unknown |-> 30,
      threshold_mixed_unknown |-> 40,
      person_conf_thresh |-> 7000, person_override_thresh |-> 6000,
      person_override_conf |-> 7000,
      pub_conf_thresh |-> 7000, pub_override_thresh |-> 5000,
      pub_override_conf |-> 6500, pub_dominance_min_diff |-> 2 ]

SOURCE_CONFIGS ==
    [ CROSSREF |-> CROSSREF_CONFIG, crossref |-> CROSSREF_CONFIG,
      Crossref |-> CROSSREF_CONFIG,
      ORCID |-> ORCID_CONFIG, orcid |-> ORCID_CONFIG, Orcid |-> ORCID_CONFIG,
      ISTINA |-> ISTINA_CONFIG, istina |-> ISTINA_CONFIG,
      Istina |-> ISTINA_CONFIG, ISTINA_RU |-> ISTINA_CONFIG ]

\* None and the empty string are both written "".  The key ISTINA_RU stands
\* for the Cyrillic spelling of the tag.
get_config(source) ==
    IF source # "" /\ source \in DOMAIN SOURCE_CONFIGS
    THEN SOURCE_CONFIGS[source]
    ELSE DEFAULT_CONFIG

CHINESE_FEATURE_WEIGHTS ==
    [ CN_SURNAME_FIRST_ONLY |-> 200, CN_SURNAME_LAST_ONLY |-> 200,
      CN_SURNAME_DOUBLE_FREQ |-> 150, CN_SURNAME_DOUBLE_DEFAULT |-> 150,
      FIRST_VALID_PY_NAME |-> 80, LAST_VALID_PY_NAME |-> 80,
      FIRST_SINGLE_SYLLABLE |-> 40, LAST_SINGLE_SYLLABLE |-> 40,
      CN_AFFILIATION |-> 50,
      TWO_TOKENS_CN_SURNAME_LAST |-> 70, TWO_TOKENS_SINGLE_SYLLABLE |-> 30 ]

WESTERN_FEATURE_WEIGHTS ==
    [ WEST_SURNAME_LAST |-> 200, WEST_SURNAME_FIRST |-> 50,
      CN_SURNAME_FIRST_WITH_CN_AFFIL |-> 200,
      CN_SURNAME_LAST_WITH_CN_AFFIL |-> 100,
      NO_CN_EVIDENCE_DEFAULT |-> 100 ]

MIXED_FEATURE_WEIGHTS ==
    [ CN_SURNAME_FIRST_CN_AFFIL |-> 150, CN_SURNAME_LAST_CN_AFFIL |-> 150,
      CN_SURNAME_ONLY |-> 100, NO_MATCH_DEFAULT |-> 50 ]

\* ------------------------------------------------------------- lexicon
\* Sample tokens with the answers of the data tables for each of them:
\*   ascii    strip_diacritics(norm.lower())
\*   initial  the token matches [A-Z](\.[A-Z])*\.?
\*   dia      norm.lower() differs from the ascii form
\*   script   detect_script
\*   cn       is_surname_pinyin(ascii)
\*   rank     get_surname_frequency_rank(ascii), 999 when unranked
\*   wcommon  is_common_western_surname(ascii)
\*   suffix   has_western_suffix(ascii)
\*   cluster  has_western_consonant_cluster(ascii)
\*   ext      has_latin_extended_chars(ascii)
\*   py_ok, py_syl   is_valid_pinyin_name(ascii)
\* "Mu:ller" is the token M-u-umlaut-l-l-e-r, "Schro:der" the token
\* S-c-h-r-o-umlaut-d-e-r and "CJK:zhang" the single Han character of the
\* surname Zhang.
TokenInfo(ascii, initial, dia, script, cn, rank, wcommon, suffix, cluster, py_ok, py_syl) ==
    [ ascii |-> ascii, initial |-> initial, dia |-> dia, script |-> script,
      cn |-> cn, rank |-> rank, wcommon |-> wcommon, suffix |-> suffix,
      cluster |-> cluster, ext |-> FALSE, py_ok |-> py_ok, py_syl |-> py_syl ]

Lexicon ==
    [ w \in {"W.", "Liu", "Kong", "Tianxiang", "Smith", "Mu:ller",
             "CJK:zhang", "John", "Ivanov", "Schro:der", "Strauss",
             "W", "X.Y.", "X.Y", "XY"} |->
        CASE w = "W."        -> TokenInfo("w.", TRUE, FALSE, "LATIN", FALSE, 999, FALSE, FALSE, FALSE, FALSE, 0)
          [] w = "Liu"       -> TokenInfo("liu", FALSE, FALSE, "LATIN", TRUE, 4, FALSE, FALSE, FALSE, TRUE, 1)
          [] w = "Kong"      -> TokenInfo("kong", FALSE, FALSE, "LATIN", TRUE, 95, FALSE, FALSE, FALSE, TRUE, 1)
          [] w = "Tianxiang" -> TokenInfo("tianxiang", FALSE, FALSE, "LATIN", FALSE, 999, FALSE, FALSE, FALSE, TRUE, 2)
          [] w = "Smith"     -> TokenInfo("smith", FALSE, FALSE, "LATIN", FALSE, 999, TRUE, FALSE, TRUE, FALSE, 0)
          [] w = "Mu:ller"   -> TokenInfo("muller", FALSE, TRUE, "LATIN", FALSE, 999, TRUE, FALSE, FALSE, FALSE, 0)
          [] w = "CJK:zhang" -> TokenInfo("CJK:zhang", FALSE, FALSE, "CJK", FALSE, 999, FALSE, FALSE, FALSE, FALSE, 0)
          [] w = "John"      -> TokenInfo("john", FALSE, FALSE, "LATIN", FALSE, 999, FALSE, FALSE, FALSE, FALSE, 0)
          [] w = "Ivanov"    -> TokenInfo("ivanov", FALSE, FALSE, "LATIN", FALSE, 999, TRUE, TRUE, FALSE, FALSE, 0)
          [] w = "Schro:der" -> TokenInfo("schroder", FALSE, TRUE, "LATIN", FALSE, 999, FALSE, FALSE, TRUE, FALSE, 0)
          [] w = "Strauss"   -> TokenInfo("strauss", FALSE, FALSE, "LATIN", FALSE, 999, FALSE, FALSE, TRUE, FALSE, 0)
          [] w = "W"         -> TokenInfo("w", TRUE, FALSE, "LATIN", FALSE, 999, FALSE, FALSE, FALSE, FALSE, 0)
          [] w = "X.Y."      -> TokenInfo("x.y.", TRUE, FALSE, "LATIN", FALSE, 999, FALSE, FALSE, FALSE, FALSE, 0)
          [] w = "X.Y"       -> TokenInfo("x.y", TRUE, FALSE, "LATIN", FALSE, 999, FALSE, FALSE, FALSE, FALSE, 0)
          [] w = "XY"        -> TokenInfo("xy", FALSE, FALSE, "LATIN", FALSE, 999, FALSE, FALSE, FALSE, FALSE, 0) ]

\* The characters of a token by class: "U" an uppercase ASCII letter, "l"
\* a lowercase ASCII letter, "." a period, "o" any other character.
Spelling(w) ==
    CASE w = "W."        -> <<"U", ".">>
      [] w = "W"         -> <<"U">>
      [] w = "X.Y."      -> <<"U", ".", "U", ".">>
      [] w = "X.Y"       -> <<"U", ".", "U">>
      [] w = "XY"        -> <<"U", "U">>
      [] w = "Liu"       -> <<"U", "l", "l">>
      [] w = "Kong"      -> <<"U", "l", "l", "l">>
      [] w = "John"      -> <<"U", "l", "l", "l">>
      [] w = "Smith"     -> <<"U", "l", "l", "l", "l">>
      [] w = "Ivanov"    -> <<"U", "l", "l", "l", "l", "l">>
      [] w = "Strauss"   -> <<"U", "l", "l", "l", "l", "l", "l">>
      [] w = "Tianxiang" -> <<"U", "l", "l", "l", "l", "l", "l", "l", "l">>
      [] w = "Mu:ller"   -> <<"U", "o", "l", "l", "l", "l">>
      [] w = "Schro:der" -> <<"U", "l", "l", "l", "o", "l", "l", "l">>
      [] w = "CJK:zhang" -> <<"o">>

\* re.fullmatch of [A-Z](\.[A-Z])*\.? on a spelling: an uppercase letter,
\* then periods each followed by an uppercase letter, the last period
\* possibly ending the token.
InitialPattern(sp) ==
    /\ Len(sp) >= 1
    /\ sp[1] = "U"
    /\ \A i \in 2 .. Len(sp) :
          \/ sp[i] = "." /\ (i = Len(sp) \/ sp[i + 1] = "U")
          \/ sp[i] = "U" /\ sp[i - 1] = "."

\* The tokens the names of classify and of the batch are built from.
Words == {"W.", "Liu", "Kong", "Tianxiang", "Smith", "Mu:ller",
          "CJK:zhang", "John", "Ivanov"}

\* Lookups keyed by the ascii form of a token.
AsciiInfo(a) == Lexicon[CHOOSE w \in DOMAIN Lexicon : Lexicon[w].ascii = a]

is_surname_pinyin(a) == AsciiInfo(a).cn

get_surname_frequency_rank(a) == AsciiInfo(a).rank

is_common_western_surname(a) == AsciiInfo(a).wcommon

has_western_suffix(a) == AsciiInfo(a).suffix

has_western_consonant_cluster(a) == AsciiInfo(a).cluster

has_latin_extended_chars(a) == AsciiInfo(a).ext

is_likely_western_name(a) ==
    has_western_suffix(a) \/ has_western_consonant_cluster(a)
        \/ has_latin_extended_chars(a)

is_valid_pinyin_name(a) ==
    [ is_valid |-> AsciiInfo(a).py_ok, syl_count |-> AsciiInfo(a).py_syl ]

\* Affiliation strings and what analyze_affiliation returns for them:
\* "" (no affiliation) and "Dept. 5" (no keyword) give None.
Affiliations == {"", "Tsinghua University, Beijing", "MIT, USA"}

NoAffiliation == [found |-> FALSE, is_chinese |-> FALSE, country |-> ""]

analyze_affiliation(a) ==
    CASE a = "Tsinghua University, Beijing" ->
            [found |-> TRUE, is_chinese |-> TRUE, country |-> "China"]
      [] a = "MIT, USA" ->
            [found |-> TRUE, is_chinese |-> FALSE, country |-> "usa"]
      [] OTHER -> NoAffiliation

\* ------------------------------------------------- module 1: preprocess
\* name_raw is the sequence of the whitespace-separated pieces of the raw
\* string; the empty and the whitespace-only string are the empty sequence.
Token(w) ==
    [ raw |-> w, ascii |-> Lexicon[w].ascii,
      is_initial |-> Lexicon[w].initial,
      has_diacritics |-> Lexicon[w].dia,
      char_script |-> Lexicon[w].script ]

\* Variant of NonInitialIndices that counts every token, abbreviation or
\* not.
NonInitialIndices_AllTokens(tokens) == 0 .. (Len(tokens) - 1)

NonInitialIndices(tokens) ==
    { i \in 0 .. (Len(tokens) - 1) : ~tokens[i + 1].is_initial }

SetMin(S) == CHOOSE x \in S : \A y \in S : x <= y

SetMax(S) == CHOOSE x \in S : \A y \in S : x >= y

\* Indices are 0-based as in the source; tokens[i + 1] is token i.
preprocess_name(name_raw) ==
    LET tokens == [i \in 1 .. Len(name_raw) |-> Token(name_raw[i])]
        non_initial_indices == NonInitialIndices(tokens)
    IN  IF Cardinality(non_initial_indices) >= 2
        THEN [ tokens |-> tokens,
               first_idx |-> SetMin(non_initial_indices),
               last_idx |-> SetMax(non_initial_indices) ]
        ELSE IF Len(tokens) >= 2
        THEN [ tokens |-> tokens, first_idx |-> 0,
               last_idx |-> Len(tokens) - 1 ]
        ELSE [ tokens |-> tokens, first_idx |-> -1, last_idx |-> -1 ]

\* ---------------------------------------------- module 2: mode detection
IsIntlSource(source) == source \in {"CROSSREF", "ORCID", "crossref", "orcid"}

IsIstinaSource(source) == source \in {"ISTINA", "istina", "ISTINA_RU"}

Plus(score, cond, w) == IF cond THEN FAdd(score, Lit(w)) ELSE score

ValidPyName(tok) ==
    LET v == is_valid_pinyin_name(tok.ascii)
    IN  v.is_valid /\ 2 <= v.syl_count /\ v.syl_count <= 3

\* The two evidence totals of detect_mode, accumulated in source order.
ModeScores(record, parsed) ==
    LET first == parsed.tokens[parsed.first_idx + 1]
        last == parsed.tokens[parsed.last_idx + 1]
        toks == parsed.tokens
        affil == analyze_affiliation(record.affiliation_raw)
        cn1 == Plus(Lit(0), \E i \in DOMAIN toks : toks[i].char_script = "CJK", 90)
        cn2a == Plus(cn1, is_surname_pinyin(first.ascii), 40)
        cn2b == Plus(cn2a, is_surname_pinyin(last.ascii), 20)
        cn3a == Plus(cn2b, ValidPyName(first), 20)
        cn3b == Plus(cn3a, ValidPyName(last), 20)
        cn4 == Plus(cn3b, record.affiliation_raw # "" /\ affil.found /\ affil.is_chinese, 40)
        w1a == Plus(Lit(0), has_western_suffix(first.ascii), 50)
        w1b == Plus(w1a, has_western_suffix(last.ascii), 50)
        w2 == Plus(w1b, \E i \in DOMAIN toks : toks[i].has_diacritics, 30)
        w3 == Plus(w2, is_common_western_surname(last.ascii), 50)
        w4a == Plus(w3, has_western_consonant_cluster(first.ascii), 30)
        w4b == Plus(w4a, has_western_consonant_cluster(last.ascii), 30)
        west == Plus(w4b, IsIntlSource(record.source), 20)
        cn == Plus(cn4, IsIstinaSource(record.source), 20)
    IN  [score_cn |-> cn, score_west |-> west]

\* The mode decision of detect_mode on the two totals.
ModeOf(s) ==
    IF FGeq(s.score_cn, FAdd(s.score_west, Lit(30))) /\ FGeq(s.score_cn, Lit(50))
    THEN "CHINESE"
    ELSE IF FGeq(s.score_west, FAdd(s.score_cn, Lit(30)))
               /\ FGeq(s.score_west, Lit(50))
    THEN "WESTERN"
    ELSE "MIXED"

detect_mode(record, parsed, cfg) ==
    IF parsed.first_idx < 0 \/ parsed.last_idx < 0 THEN "MIXED"
    ELSE ModeOf(ModeScores(record, parsed))

\* ------------------------------------------ module 3: feature extraction
DefaultFeatures ==
    [ token_count |-> 0, has_initials |-> FALSE,
      first_is_cn_surname |-> FALSE, last_is_cn_surname |-> FALSE,
      first_is_west_surname |-> FALSE, last_is_west_surname |-> FALSE,
      first_pinyin_ok |-> FALSE, last_pinyin_ok |-> FALSE,
      first_pinyin_syllables |-> 0, last_pinyin_syllables |-> 0,
      cn_affiliation |-> FALSE, west_affiliation |-> FALSE ]

extract_features(record, parsed, cfg, mode) ==
    IF parsed.first_idx < 0 \/ parsed.last_idx < 0 THEN DefaultFeatures
    ELSE
    LET tokens == parsed.tokens
        first == tokens[parsed.first_idx + 1]
        last == tokens[parsed.last_idx + 1]
        affil == analyze_affiliation(record.affiliation_raw)
        has_affil == record.affiliation_raw # "" /\ affil.found
        py_first == is_valid_pinyin_name(first.ascii)
        py_last == is_valid_pinyin_name(last.ascii)
    IN  [ token_count |-> Len(tokens),
          has_initials |-> \E i \in DOMAIN tokens : tokens[i].is_initial,
          cn_affiliation |-> has_affil /\ affil.is_chinese,
          west_affiliation |-> has_affil /\ ~affil.is_chinese /\ affil.country # "",
          first_is_cn_surname |-> is_surname_pinyin(first.ascii),
          last_is_cn_surname |-> is_surname_pinyin(last.ascii),
          first_is_west_surname |->
              is_common_western_surname(first.ascii) \/ is_likely_western_name(first.ascii),
          last_is_west_surname |->
              is_common_western_surname(last.ascii) \/ is_likely_western_name(last.ascii),
          first_pinyin_ok |-> py_first.is_valid,
          last_pinyin_ok |-> py_last.is_valid,
          first_pinyin_syllables |-> py_first.syl_count,
          last_pinyin_syllables |-> py_last.syl_count ]

\* ------------------------------------------------ module 4: the scorers
\* A reason code is a tuple of strings: the tag followed by the values the
\* source formats into it.
NameDecision(order, confidence, mode, reason_codes) ==
    [ order |-> order, confidence |-> confidence, mode |-> mode,
      reason_codes |-> reason_codes ]

Scores(fam, giv) == [fam |-> Lit(fam), giv |-> Lit(giv), reasons |-> <<>>]

BumpFam(s, cond, w, code) ==
    IF cond
    THEN [s EXCEPT !.fam = FAdd(@, Lit(w)), !.reasons = Append(@, code)]
    ELSE s

BumpGiv(s, cond, w, code) ==
    IF cond
    THEN [s EXCEPT !.giv = FAdd(@, Lit(w)), !.reasons = Append(@, code)]
    ELSE s

\* Variant of BumpBoth that adds the weight to the family_first score only.
BumpBoth_FamOnly(s, cond, w, code) ==
    IF cond
    THEN [s EXCEPT !.fam = FAdd(@, Lit(w)), !.reasons = Append(@, code)]
    ELSE s

BumpBoth(s, cond, w, code) ==
    IF cond
    THEN [s EXCEPT !.fam = FAdd(@, Lit(w)), !.giv = FAdd(@, Lit(w)),
                   !.reasons = Append(@, code)]
    ELSE s

Abs(n) == IF n < 0 THEN -n ELSE n

\* Variant of DoubleSurname without the frequency rule.
DoubleSurname_AlwaysFamily(s, cond, record, first_token, last_token) ==
    IF cond
    THEN BumpFam(s, TRUE, CHINESE_FEATURE_WEIGHTS.CN_SURNAME_DOUBLE_DEFAULT,
                 <<"CN_SURNAME_DOUBLE_DEFAULT_FAM">>)
    ELSE s

\* The double-surname branch of decide_chinese (both content tokens are
\* Chinese surnames).
DoubleSurname(s, cond, record, first_token, last_token) ==
    LET W == CHINESE_FEATURE_WEIGHTS
        r_first == get_surname_frequency_rank(first_token.ascii)
        r_last == get_surname_frequency_rank(last_token.ascii)
    IN  IF ~cond THEN s
        ELSE IF IsIstinaSource(record.source)
        THEN BumpFam(s, TRUE, W.CN_SURNAME_DOUBLE_DEFAULT,
                     <<"CN_SURNAME_DOUBLE_DEFAULT_FAM_ISTINA">>)
        ELSE IF r_first # 0 /\ r_last # 0 /\ Abs(r_first - r_last) > 20
        THEN IF r_last < r_first
             THEN BumpGiv(s, TRUE, W.CN_SURNAME_DOUBLE_FREQ,
                          <<"CN_SURNAME_DOUBLE_FREQ_LAST", ToString(r_last), ToString(r_first)>>)
             ELSE BumpFam(s, TRUE, W.CN_SURNAME_DOUBLE_FREQ,
                          <<"CN_SURNAME_DOUBLE_FREQ_FIRST", ToString(r_first), ToString(r_last)>>)
        ELSE BumpFam(s, TRUE, W.CN_SURNAME_DOUBLE_DEFAULT,
                     <<"CN_SURNAME_DOUBLE_DEFAULT_FAM">>)

\* Accumulated scores of decide_chinese, before the decision.
ChineseScores(record, parsed, f, cfg) ==
    LET W == CHINESE_FEATURE_WEIGHTS
        first_token == parsed.tokens[parsed.first_idx + 1]
        last_token == parsed.tokens[parsed.last_idx + 1]
        s0 == Scores(cfg.chinese_prior_fam, cfg.chinese_prior_giv)
        s1 == BumpFam(s0, f.first_is_cn_surname /\ ~f.last_is_cn_surname,
                      W.CN_SURNAME_FIRST_ONLY, <<"CN_SURNAME_FIRST_ONLY">>)
        s2 == BumpGiv(s1, f.last_is_cn_surname /\ ~f.first_is_cn_surname,
                      W.CN_SURNAME_LAST_ONLY, <<"CN_SURNAME_LAST_ONLY">>)
        s3 == DoubleSurname(s2, f.first_is_cn_surname /\ f.last_is_cn_surname,
                            record, first_token, last_token)
        s4 == BumpGiv(s3, f.first_pinyin_ok /\ 2 <= f.first_pinyin_syllables
                              /\ f.first_pinyin_syllables <= 3,
                      W.FIRST_VALID_PY_NAME,
                      <<"FIRST_VALID_PY_NAME", ToString(f.first_pinyin_syllables)>>)
        s5 == BumpFam(s4, f.last_pinyin_ok /\ 2 <= f.last_pinyin_syllables
                              /\ f.last_pinyin_syllables <= 3,
                      W.LAST_VALID_PY_NAME,
                      <<"LAST_VALID_PY_NAME", ToString(f.last_pinyin_syllables)>>)
        s6 == BumpGiv(s5, f.first_pinyin_ok /\ f.first_pinyin_syllables = 1,
                      W.FIRST_SINGLE_SYLLABLE, <<"FIRST_SINGLE_SYLLABLE">>)
        s7 == BumpFam(s6, f.last_pinyin_ok /\ f.last_pinyin_syllables = 1,
                      W.LAST_SINGLE_SYLLABLE, <<"LAST_SINGLE_SYLLABLE">>)
        s8 == BumpBoth(s7, f.cn_affiliation, W.CN_AFFILIATION, <<"CN_AFFILIATION">>)
        two == f.token_count = 2 /\ f.last_is_cn_surname /\ ~f.first_is_cn_surname
        s9 == BumpGiv(s8, two,
                      IF IsIntlSource(record.source)
                      THEN W.TWO_TOKENS_CN_SURNAME_LAST
                      ELSE W.TWO_TOKENS_SINGLE_SYLLABLE,
                      IF IsIntlSource(record.source)
                      THEN <<"TWO_TOKENS_CN_SURNAME_LAST_INTL">>
                      ELSE <<"TWO_TOKENS_CN_SURNAME_LAST_ISTINA">>)
    IN  s9

\* Variant of ChineseVerdict without the small-gap branch.
ChineseVerdict_NoUnknown(s, delta, cfg) ==
    IF FLess(Lit(0), delta)
    THEN NameDecision("family_first", Min(sigmoid(delta), 9500), "CHINESE", s.reasons)
    ELSE NameDecision("given_first", Min(sigmoid(FNeg(delta)), 9500), "CHINESE", s.reasons)

\* The decision of decide_chinese on the accumulated scores s and their
\* gap delta.
ChineseVerdict(s, delta, cfg) ==
    IF FLess(FAbs(delta), Lit(cfg.threshold_cn_unknown))
    THEN NameDecision("unknown", 5000, "CHINESE",
                      Append(s.reasons, <<"DELTA_SMALL_CN">>))
    ELSE IF FLess(Lit(0), delta)
    THEN NameDecision("family_first", Min(sigmoid(delta), 9500), "CHINESE", s.reasons)
    ELSE NameDecision("given_first", Min(sigmoid(FNeg(delta)), 9500), "CHINESE", s.reasons)

ChineseDecision(s, cfg) == ChineseVerdict(s, FSub(s.fam, s.giv), cfg)

decide_chinese(record, parsed, f, cfg) ==
    ChineseDecision(ChineseScores(record, parsed, f, cfg), cfg)

WesternScores(record, parsed, f, cfg) ==
    LET W == WESTERN_FEATURE_WEIGHTS
        s0 == Scores(cfg.western_prior_fam, cfg.western_prior_giv)
        s1 == BumpGiv(s0, f.last_is_west_surname, W.WEST_SURNAME_LAST,
                      <<"WEST_SURNAME_LAST">>)
        s2 == BumpFam(s1, f.first_is_west_surname /\ ~f.last_is_west_surname,
                      W.WEST_SURNAME_FIRST, <<"WEST_SURNAME_FIRST">>)
        s3 == BumpFam(s2, f.first_is_cn_surname /\ f.cn_affiliation,
                      W.CN_SURNAME_FIRST_WITH_CN_AFFIL,
                      <<"CN_SURNAME_FIRST_WITH_CN_AFFIL">>)
        s4 == BumpGiv(s3, f.last_is_cn_surname /\ f.cn_affiliation,
                      W.CN_SURNAME_LAST_WITH_CN_AFFIL,
                      <<"CN_SURNAME_LAST_WITH_CN_AFFIL">>)
        s5 == BumpGiv(s4, ~(f.first_is_cn_surname \/ f.last_is_cn_surname
                                \/ f.cn_affiliation),
                      W.NO_CN_EVIDENCE_DEFAULT, <<"NO_CN_EVIDENCE_DEFAULT_GIVEN">>)
    IN  s5

\* Variant of WesternVerdict that answers unknown on a small gap, as the
\* other two scorers do.
WesternVerdict_UnknownOnTie(s, delta, cfg) ==
    IF FLess(FAbs(delta), Lit(cfg.threshold_west_unknown))
    THEN NameDecision("unknown", 4000, "WESTERN",
                      Append(s.reasons, <<"DELTA_SMALL_WEST">>))
    ELSE IF FLess(Lit(0), delta)
    THEN NameDecision("family_first", Min(sigmoid(delta), 9500), "WESTERN", s.reasons)
    ELSE NameDecision("given_first", Min(sigmoid(FNeg(delta)), 9500), "WESTERN", s.reasons)

\* The decision of decide_western on the accumulated scores s and their
\* gap delta.
WesternVerdict(s, delta, cfg) ==
    IF FLess(FAbs(delta), Lit(cfg.threshold_west_unknown))
    THEN NameDecision("given_first", 5500, "WESTERN",
                      Append(s.reasons, <<"FORCED_GIVEN_ON_TIE">>))
    ELSE IF FLess(Lit(0), delta)
    THEN NameDecision("family_first", Min(sigmoid(delta), 9500), "WESTERN", s.reasons)
    ELSE NameDecision("given_first", Min(sigmoid(FNeg(delta)), 9500), "WESTERN", s.reasons)

WesternDecision(s, cfg) == WesternVerdict(s, FSub(s.fam, s.giv), cfg)

decide_western(record, parsed, f, cfg) ==
    WesternDecision(WesternScores(record, parsed, f, cfg), cfg)

MixedScores(record, parsed, f, cfg) ==
    LET W == MIXED_FEATURE_WEIGHTS
        s0 == Scores(cfg.mixed_prior_fam, cfg.mixed_prior_giv)
        s1 == BumpFam(s0, f.first_is_cn_surname /\ f.cn_affiliation,
                      W.CN_SURNAME_FIRST_CN_AFFIL,
                      <<"CN_SURNAME_FIRST_CN_AFFIL_MIXED">>)
        s2 == BumpGiv(s1, f.last_is_cn_surname /\ f.cn_affiliation,
                      W.CN_SURNAME_LAST_CN_AFFIL,
                      <<"CN_SURNAME_LAST_CN_AFFIL_MIXED">>)
        s3 == BumpFam(s2, f.first_is_cn_surname /\ ~f.last_is_cn_surname,
                      W.CN_SURNAME_ONLY, <<"CN_SURNAME_FIRST_ONLY_MIXED">>)
        s4 == BumpGiv(s3, f.last_is_cn_surname /\ ~f.first_is_cn_surname,
                      W.CN_SURNAME_ONLY, <<"CN_SURNAME_LAST_ONLY_MIXED">>)
        s5 == BumpGiv(s4, ~f.first_is_cn_surname /\ ~f.last_is_cn_surname,
                      W.NO_MATCH_DEFAULT, <<"NO_MATCH_DEFAULT_GIVEN">>)
    IN  s5

\* Variant of MixedVerdict that reports the gap itself, clipped to 1.0, as
\* the confidence instead of squashing it.
MixedVerdict_GapAsConfidence(s, delta, cfg) ==
    IF FLess(FAbs(delta), Lit(cfg.threshold_mixed_unknown))
    THEN NameDecision("unknown", 4000, "MIXED",
                      Append(s.reasons, <<"DELTA_SMALL_MIXED">>))
    ELSE IF FLess(Lit(0), delta)
    THEN NameDecision("family_first", Min(FAbs(delta).h * 100, 10000), "MIXED", s.reasons)
    ELSE NameDecision("given_first", Min(FAbs(delta).h * 100, 10000), "MIXED", s.reasons)

\* The decision of decide_mixed on the accumulated scores s and their
\* gap delta.
MixedVerdict(s, delta, cfg) ==
    IF FLess(FAbs(delta), Lit(cfg.threshold_mixed_unknown))
    THEN NameDecision("unknown", 4000, "MIXED",
                      Append(s.reasons, <<"DELTA_SMALL_MIXED">>))
    ELSE IF FLess(Lit(0), delta)
    THEN NameDecision("family_first", Min(sigmoid(delta), 9000), "MIXED", s.reasons)
    ELSE NameDecision("given_first", Min(sigmoid(FNeg(delta)), 9000), "MIXED", s.reasons)

MixedDecision(s, cfg) == MixedVerdict(s, FSub(s.fam, s.giv), cfg)

decide_mixed(record, parsed, f, cfg) ==
    MixedDecision(MixedScores(record, parsed, f, cfg), cfg)

\* ------------------------------------------- module 5: local decision
\* re.match of abbrev_pattern or single_letter_pattern on the raw token.
MatchesAbbrev(tok) == Lexicon[tok.raw].initial

InvalidFormat(parsed) ==
    parsed.first_idx < 0 \/ parsed.last_idx < 0 \/ Len(parsed.tokens) < 2

\* The decision of the abbreviation check, or NoDecision when the check
\* falls through to mode detection.
NoDecision == NameDecision("", 0, "", <<>>)

\* Variant of AbbrevDecision without the reversed case.
AbbrevDecision_SecondOnly(tokens) ==
    IF Len(tokens) = 2 /\ MatchesAbbrev(tokens[2])
    THEN NameDecision("family_first", 10000, "ABBREVIATION",
                      << <<"ABBREV", tokens[1].raw, tokens[2].raw>> >>)
    ELSE IF Len(tokens) >= 3
            /\ \A i \in 2 .. Len(tokens) : MatchesAbbrev(tokens[i])
    THEN NameDecision("family_first", 10000, "ABBREVIATION",
                      << <<"ABBREV_PLUS", tokens[1].raw>> >>)
    ELSE NoDecision

\* Variant of AbbrevDecision that tests the first token before the second.
AbbrevDecision_FirstTokenFirst(tokens) ==
    IF Len(tokens) = 2 /\ MatchesAbbrev(tokens[1])
    THEN NameDecision("given_first", 8500, "ABBREVIATION",
                      << <<"ABBREV_REVERSED", tokens[1].raw, tokens[2].raw>> >>)
    ELSE IF Len(tokens) = 2 /\ MatchesAbbrev(tokens[2])
    THEN NameDecision("family_first", 10000, "ABBREVIATION",
                      << <<"ABBREV", tokens[1].raw, tokens[2].raw>> >>)
    ELSE IF Len(tokens) >= 3
            /\ \A i \in 2 .. Len(tokens) : MatchesAbbrev(tokens[i])
    THEN NameDecision("family_first", 10000, "ABBREVIATION",
                      << <<"ABBREV_PLUS", tokens[1].raw>> >>)
    ELSE NoDecision

AbbrevDecision(tokens) ==
    IF Len(tokens) = 2 /\ MatchesAbbrev(tokens[2])
    THEN NameDecision("family_first", 10000, "ABBREVIATION",
                      << <<"ABBREV", tokens[1].raw, tokens[2].raw>> >>)
    ELSE IF Len(tokens) = 2 /\ MatchesAbbrev(tokens[1])
    THEN NameDecision("given_first", 8500, "ABBREVIATION",
                      << <<"ABBREV_REVERSED", tokens[1].raw, tokens[2].raw>> >>)
    ELSE IF Len(tokens) >= 3
            /\ \A i \in 2 .. Len(tokens) : MatchesAbbrev(tokens[i])
    THEN NameDecision("family_first", 10000, "ABBREVIATION",
                      << <<"ABBREV_PLUS", tokens[1].raw>> >>)
    ELSE NoDecision

Decide(record, parsed, feats, cfg, mode) ==
    IF mode = "CHINESE" THEN decide_chinese(record, parsed, feats, cfg)
    ELSE IF mode = "WESTERN" THEN decide_western(record, parsed, feats, cfg)
    ELSE decide_mixed(record, parsed, feats, cfg)

\* Steps 3 to 5 of local_decision: mode detection, feature extraction and
\* the scorer of the mode.
DecideByMode(record, parsed, cfg, mode) ==
    Decide(record, parsed, extract_features(record, parsed, cfg, mode), cfg, mode)

\* Step 2 of local_decision: abbrev is the decision of the abbreviation
\* check.
DecideUnlessAbbrev(abbrev, record, parsed, cfg) ==
    IF abbrev # NoDecision THEN abbrev
    ELSE DecideByMode(record, parsed, cfg, detect_mode(record, parsed, cfg))

DecideParsed(record, parsed, cfg) ==
    IF InvalidFormat(parsed)
    THEN NameDecision("unknown", 0, "MIXED", << <<"INVALID_FORMAT">> >>)
    ELSE DecideUnlessAbbrev(AbbrevDecision(parsed.tokens), record, parsed, cfg)

local_decision(record, cfg) ==
    DecideParsed(record, preprocess_name(record.name_raw), cfg)

\* ======================================================================
\* State
\* ======================================================================
VARIABLES
    call,          \* classify: the arguments of identify_surname_position_v8
    pc,            \* classify: position inside local_decision
    parsed,        \* classify: the ParsedName
    mode,          \* classify: the detected mode
    feats,         \* classify: the extracted Features
    result,        \* classify: the NameDecision returned
    records,       \* batch: the list of NameRecords
    batch_source,  \* batch: the source argument
    decisions,     \* batch: record_id -> NameDecision
    passes,        \* batch: the consistency passes run so far, in order
    trie,          \* surname trie: the SurnameTrie object
    db             \* surname database: the SurnameDatabase object

vars == << call, pc, parsed, mode, feats, result,
           records, batch_source, decisions, passes, trie, db >>

storeVars == << trie, db >>

\* No SurnameTrie and no SurnameDatabase has been constructed.
NoTrie == [nodes |-> {}, ends |-> {}]

NoDatabase == [surnames |-> {}]

localVars == << call, pc, parsed, mode, feats, result >>

batchVars == << records, batch_source, decisions, passes >>

\* Names of up to MaxTokens tokens.
Names == UNION { [1 .. n -> Words] : n \in 0 .. MaxTokens }

\* Source tags passed to classify; "" is an omitted source.
Sources == {"", "CROSSREF", "ORCID", "ISTINA", "Istina"}

NoParsed == [tokens |-> <<>>, first_idx |-> -1, last_idx |-> -1]

\* The NameRecord identify_surname_position_v8 builds from its arguments.
CallRecord(c) ==
    [ record_id |-> "single",
      source |-> IF c.source # "" THEN c.source ELSE "DEFAULT",
      person_id |-> "", publication_id |-> "",
      name_raw |-> c.name_raw, affiliation_raw |-> c.affiliation ]

\* ----------------------------------------------------- classify (local)
InitLocal ==
    /\ trie = NoTrie
    /\ db = NoDatabase
    /\ call \in [name_raw : Names, affiliation : Affiliations, source : Sources]
    /\ pc = "start"
    /\ parsed = NoParsed
    /\ mode = ""
    /\ feats = DefaultFeatures
    /\ result = NoDecision
    /\ records = <<>>
    /\ batch_source = ""
    /\ decisions = <<>>
    /\ passes = <<>>

Preprocess ==
    /\ pc = "start"
    /\ parsed' = preprocess_name(call.name_raw)
    /\ pc' = "parsed"
    /\ UNCHANGED << call, mode, feats, result, batchVars, storeVars >>

RejectInvalid ==
    /\ pc = "parsed"
    /\ InvalidFormat(parsed)
    /\ result' = NameDecision("unknown", 0, "MIXED", << <<"INVALID_FORMAT">> >>)
    /\ pc' = "done"
    /\ UNCHANGED << call, parsed, mode, feats, batchVars, storeVars >>

AbbrevShortCircuit ==
    /\ pc = "parsed"
    /\ ~InvalidFormat(parsed)
    /\ AbbrevDecision(parsed.tokens) # NoDecision
    /\ result' = AbbrevDecision(parsed.tokens)
    /\ pc' = "done"
    /\ UNCHANGED << call, parsed, mode, feats, batchVars, storeVars >>

DetectMode ==
    /\ pc = "parsed"
    /\ ~InvalidFormat(parsed)
    /\ AbbrevDecision(parsed.tokens) = NoDecision
    /\ mode' = detect_mode(CallRecord(call), parsed, get_config(call.source))
    /\ pc' = "mode"
    /\ UNCHANGED << call, parsed, feats, result, batchVars, storeVars >>

ExtractFeatures ==
    /\ pc = "mode"
    /\ feats' = extract_features(CallRecord(call), parsed, get_config(call.source), mode)
    /\ pc' = "feats"
    /\ UNCHANGED << call, parsed, mode, result, batchVars, storeVars >>

DecideChinese ==
    /\ pc = "feats"
    /\ mode = "CHINESE"
    /\ result' = decide_chinese(CallRecord(call), parsed, feats, get_config(call.source))
    /\ pc' = "done"
    /\ UNCHANGED << call, parsed, mode, feats, batchVars, storeVars >>

DecideWestern ==
    /\ pc = "feats"
    /\ mode = "WESTERN"
    /\ result' = decide_western(CallRecord(call), parsed, feats, get_config(call.source))
    /\ pc' = "done"
    /\ UNCHANGED << call, parsed, mode, feats, batchVars, storeVars >>

DecideMixed ==
    /\ pc = "feats"
    /\ mode # "CHINESE" /\ mode # "WESTERN"
    /\ result' = decide_mixed(CallRecord(call), parsed, feats, get_config(call.source))
    /\ pc' = "done"
    /\ UNCHANGED << call, parsed, mode, feats, batchVars, storeVars >>

NextLocal ==
    \/ Preprocess
    \/ RejectInvalid
    \/ AbbrevShortCircuit
    \/ DetectMode
    \/ ExtractFeatures
    \/ DecideChinese
    \/ DecideWestern
    \/ DecideMixed

SpecLocal == InitLocal /\ [][NextLocal]_vars

\* The pipeline of actions returns what local_decision computes.
LocalMatchesOperator ==
    pc = "done" => result = local_decision(CallRecord(call), get_config(call.source))

\* ------------------------------------------------ preprocessing alone
\* preprocess_name and the abbreviation check of local_decision on names
\* of abbreviations of every spelling next to ordinary tokens.
ParseWords == {"W.", "W", "X.Y.", "X.Y", "XY", "Liu", "Mu:ller", "CJK:zhang"}

ParseNames == UNION { [1 .. n -> ParseWords] : n \in 0 .. MaxTokens }

InitParse ==
    /\ trie = NoTrie
    /\ db = NoDatabase
    /\ call \in [name_raw : ParseNames, affiliation : {""}, source : {""}]
    /\ pc = "start"
    /\ parsed = NoParsed
    /\ mode = ""
    /\ feats = DefaultFeatures
    /\ result = NoDecision
    /\ records = <<>>
    /\ batch_source = ""
    /\ decisions = <<>>
    /\ passes = <<>>

NextParse ==
    \/ Preprocess
    \/ RejectInvalid
    \/ AbbrevShortCircuit

SpecParse == InitParse /\ [][NextParse]_vars

\* --------------------------------------------- mode detection alone
\* detect_mode on names of two or more tokens that carry every signal it
\* adds up: surname and pinyin tokens, Han script, Western suffix, common
\* Western surname, diacritics and consonant clusters.
ModeWords == {"Liu", "Tianxiang", "CJK:zhang", "Smith", "Mu:ller", "Ivanov",
              "Schro:der", "Strauss"}

ModeNames == UNION { [1 .. n -> ModeWords] : n \in 2 .. MaxTokens }

InitMode ==
    /\ trie = NoTrie
    /\ db = NoDatabase
    /\ call \in [name_raw : ModeNames, affiliation : Affiliations, source : Sources]
    /\ pc = "start"
    /\ parsed = NoParsed
    /\ mode = ""
    /\ feats = DefaultFeatures
    /\ result = NoDecision
    /\ records = <<>>
    /\ batch_source = ""
    /\ decisions = <<>>
    /\ passes = <<>>

NextMode ==
    \/ Preprocess
    \/ DetectMode

SpecMode == InitMode /\ [][NextMode]_vars

\* ------------------------------------------------- the scorers alone
\* The per-mode scorers as functions of their arguments: a record (of which
\* they read the source), a ParsedName (of which the double-surname rule
\* reads the two content tokens), a Features value and a SourceConfig.
\* The Features are drawn freely; the fields no scorer reads
\* (has_initials, west_affiliation) keep their defaults, and a token that
\* does not segment into pinyin has syllable count 0, as segment_pinyin
\* returns it.
Modes == {"CHINESE", "WESTERN", "MIXED"}

PinyinResults ==
    {[ok |-> FALSE, syl |-> 0]} \cup {[ok |-> TRUE, syl |-> n] : n \in 1 .. MaxSyllables}

FeatureSets ==
    { [ token_count |-> tc, has_initials |-> FALSE,
        first_is_cn_surname |-> b[1], last_is_cn_surname |-> b[2],
        first_is_west_surname |-> b[3], last_is_west_surname |-> b[4],
        first_pinyin_ok |-> p1.ok, last_pinyin_ok |-> p2.ok,
        first_pinyin_syllables |-> p1.syl, last_pinyin_syllables |-> p2.syl,
        cn_affiliation |-> b[5], west_affiliation |-> FALSE ] :
      tc \in 2 .. MaxTokens, b \in [1 .. 5 -> BOOLEAN],
      p1 \in PinyinResults, p2 \in PinyinResults }

\* Names by the frequency ranks of their content tokens: rarer first, rarer
\* last, equally ranked, and an unranked first token.
ScorerNames ==
    { <<"Kong", "Liu">>, <<"Liu", "Kong">>, <<"Liu", "Liu">>, <<"Tianxiang", "Liu">> }

\* Sources of the record: an international one, an ISTINA one, neither.
ScorerSources == {"CROSSREF", "ISTINA", ""}

\* The SourceConfig handed to the scorer, by the name it is registered under.
ScorerConfigs == {"CROSSREF", "ORCID", "ISTINA", "DEFAULT"}

ScorerConfig == get_config(batch_source)

InitScorer ==
    /\ trie = NoTrie
    /\ db = NoDatabase
    /\ call \in [name_raw : ScorerNames, affiliation : {""}, source : ScorerSources]
    /\ pc = "feats"
    /\ parsed = preprocess_name(call.name_raw)
    /\ mode \in Modes
    /\ feats \in FeatureSets
    /\ result = NoDecision
    /\ records = <<>>
    /\ batch_source \in ScorerConfigs
    /\ decisions = <<>>
    /\ passes = <<>>

ScoreChinese ==
    /\ pc = "feats"
    /\ mode = "CHINESE"
    /\ result' = decide_chinese(CallRecord(call), parsed, feats, ScorerConfig)
    /\ pc' = "done"
    /\ UNCHANGED << call, parsed, mode, feats, batchVars, storeVars >>

ScoreWestern ==
    /\ pc = "feats"
    /\ mode = "WESTERN"
    /\ result' = decide_western(CallRecord(call), parsed, feats, ScorerConfig)
    /\ pc' = "done"
    /\ UNCHANGED << call, parsed, mode, feats, batchVars, storeVars >>

ScoreMixed ==
    /\ pc = "feats"
    /\ mode = "MIXED"
    /\ result' = decide_mixed(CallRecord(call), parsed, feats, ScorerConfig)
    /\ pc' = "done"
    /\ UNCHANGED << call, parsed, mode, feats, batchVars, storeVars >>

NextScorer ==
    \/ ScoreChinese
    \/ ScoreWestern
    \/ ScoreMixed

SpecScorer == InitScorer /\ [][NextScorer]_vars

\* ------------------------------------------- module 6: batch consistency
\* Variant of RecIds that puts every record into every group.
RecIds_AllRecords(recs, key, id) == DOMAIN recs

\* Record ids of the members of a group, in list order.
RecIds(recs, key, id) ==
    { i \in DOMAIN recs : recs[i][key] = id }

GroupIds(recs, key) ==
    { recs[i][key] : i \in DOMAIN recs } \ {""}

Votes(rec_ids, decs, order, conf_thresh) ==
    Cardinality({ rid \in rec_ids :
        /\ rid \in DOMAIN decs
        /\ decs[rid].order = order
        /\ decs[rid].confidence >= conf_thresh })

\* The order adjust_by_person votes for in a group, "" when it skips it.
PersonTarget(rec_ids, decs, cfg) ==
    LET fam == Votes(rec_ids, decs, "family_first", cfg.person_conf_thresh)
        giv == Votes(rec_ids, decs, "given_first", cfg.person_conf_thresh)
    IN  IF \A rid \in rec_ids : rid \in DOMAIN decs => decs[rid].order = "unknown"
        THEN ""
        ELSE IF fam = 0 /\ giv = 0 THEN ""
        ELSE IF fam >= giv THEN "family_first"
        ELSE "given_first"

\* Variant of PersonOverrides that also overrides at the floor itself.
PersonOverrides_AtFloor(d, cfg) ==
    d.order = "unknown" \/ d.confidence <= cfg.person_override_thresh

\* Variant of PersonOverrides that forgets the unknown decisions.
PersonOverrides_NoUnknown(d, cfg) ==
    d.confidence < cfg.person_override_thresh

PersonOverrides(d, cfg) ==
    d.order = "unknown" \/ d.confidence < cfg.person_override_thresh

\* Variants of adjust_by_person: the override confidence taken as the
\* smaller of the two values, and as their sum.
adjust_by_person_MinConf(recs, decs, cfg) ==
    [ rid \in DOMAIN decs |->
        LET d == decs[rid]
            pid == recs[rid].person_id
            target == PersonTarget(RecIds(recs, "person_id", pid), decs, cfg)
        IN  IF pid # "" /\ target # "" /\ PersonOverrides(d, cfg)
            THEN NameDecision(target,
                              Min(d.confidence, cfg.person_override_conf),
                              d.mode,
                              Append(d.reason_codes, <<"PERSON_CONSISTENCY_OVERRIDE">>))
            ELSE d ]

adjust_by_person_SumConf(recs, decs, cfg) ==
    [ rid \in DOMAIN decs |->
        LET d == decs[rid]
            pid == recs[rid].person_id
            target == PersonTarget(RecIds(recs, "person_id", pid), decs, cfg)
        IN  IF pid # "" /\ target # "" /\ PersonOverrides(d, cfg)
            THEN NameDecision(target,
                              d.confidence + cfg.person_override_conf,
                              d.mode,
                              Append(d.reason_codes, <<"PERSON_CONSISTENCY_OVERRIDE">>))
            ELSE d ]

\* Groups are disjoint sets of record ids and the votes of a group are
\* counted before any of its members is overwritten, so the loop over the
\* groups is the pointwise map below.
adjust_by_person(recs, decs, cfg) ==
    [ rid \in DOMAIN decs |->
        LET d == decs[rid]
            pid == recs[rid].person_id
            target == PersonTarget(RecIds(recs, "person_id", pid), decs, cfg)
        IN  IF pid # "" /\ target # "" /\ PersonOverrides(d, cfg)
            THEN NameDecision(target,
                              Max(d.confidence, cfg.person_override_conf),
                              d.mode,
                              Append(d.reason_codes, <<"PERSON_CONSISTENCY_OVERRIDE">>))
            ELSE d ]

\* Variant of PubTarget without the margin test.
PubTarget_NoMargin(rec_ids, decs, cfg) ==
    LET fam == Votes(rec_ids, decs, "family_first", cfg.pub_conf_thresh)
        giv == Votes(rec_ids, decs, "given_first", cfg.pub_conf_thresh)
    IN  IF fam = 0 /\ giv = 0 THEN ""
        ELSE IF fam > giv THEN "family_first"
        ELSE "given_first"

\* The order adjust_by_publication votes for in a group, "" when it skips.
PubTarget(rec_ids, decs, cfg) ==
    LET fam == Votes(rec_ids, decs, "family_first", cfg.pub_conf_thresh)
        giv == Votes(rec_ids, decs, "given_first", cfg.pub_conf_thresh)
    IN  IF fam = 0 /\ giv = 0 THEN ""
        ELSE IF Abs(fam - giv) < cfg.pub_dominance_min_diff THEN ""
        ELSE IF fam > giv THEN "family_first"
        ELSE "given_first"

\* Variant of PubOverrides that replaces every member of the group.
PubOverrides_EveryMember(d, cfg) ==
    d.order \in {"unknown", "family_first", "given_first"}

\* Variant of PubOverrides with the comparison reversed and joined by or.
PubOverrides_AnyMember(d, cfg) ==
    d.order = "unknown" \/ d.confidence >= cfg.pub_override_thresh

\* Variant of PubOverrides with a strict comparison.
PubOverrides_Strict(d, cfg) ==
    d.order = "unknown" /\ d.confidence < cfg.pub_override_thresh

PubOverrides(d, cfg) ==
    d.order = "unknown" /\ d.confidence <= cfg.pub_override_thresh

\* Variant of adjust_by_publication that keeps the confidence of the
\* decision it replaces.
adjust_by_publication_KeepConf(recs, decs, cfg) ==
    [ rid \in DOMAIN decs |->
        LET d == decs[rid]
            pub_id == recs[rid].publication_id
            target == PubTarget(RecIds(recs, "publication_id", pub_id), decs, cfg)
        IN  IF pub_id # "" /\ target # "" /\ PubOverrides(d, cfg)
            THEN NameDecision(target, d.confidence, d.mode,
                              Append(d.reason_codes, <<"PUB_PATTERN_OVERRIDE">>))
            ELSE d ]

adjust_by_publication(recs, decs, cfg) ==
    [ rid \in DOMAIN decs |->
        LET d == decs[rid]
            pub_id == recs[rid].publication_id
            target == PubTarget(RecIds(recs, "publication_id", pub_id), decs, cfg)
        IN  IF pub_id # "" /\ target # "" /\ PubOverrides(d, cfg)
            THEN NameDecision(target, cfg.pub_override_conf, d.mode,
                              Append(d.reason_codes, <<"PUB_PATTERN_OVERRIDE">>))
            ELSE d ]

\* ------------------------------------------------------ batch processing
\* Sample inputs of a batch: name, affiliation and source tag of a record.
\* Their local decisions cover unknown at 0, 0.4 and 0.5 and both orders
\* below and above the vote and override floors of the shipped configs.
BatchInputs ==
    << [name_raw |-> <<>>, affiliation_raw |-> "", source |-> "DEFAULT"],
       [name_raw |-> <<"John", "John">>, affiliation_raw |-> "", source |-> ""],
       [name_raw |-> <<"Tianxiang", "Tianxiang">>,
        affiliation_raw |-> "Tsinghua University, Beijing", source |-> "DEFAULT"],
       [name_raw |-> <<"Liu", "W.">>, affiliation_raw |-> "", source |-> "CROSSREF"],
       [name_raw |-> <<"Ivanov", "Kong">>, affiliation_raw |-> "", source |-> "Istina"],
       [name_raw |-> <<"Tianxiang", "Liu">>, affiliation_raw |-> "", source |-> "CROSSREF"],
       [name_raw |-> <<"Ivanov", "John">>,
        affiliation_raw |-> "Tsinghua University, Beijing", source |-> "CROSSREF"] >>

\* person_id and publication_id of a record; "" is an absent id.  A record
\* with neither id is touched by no pass.
Groupings ==
    << [person_id |-> "P1", publication_id |-> ""],
       [person_id |-> "", publication_id |-> "PUB1"],
       [person_id |-> "P1", publication_id |-> "PUB1"] >>

\* Record i of a batch; its record_id is its position in the list.
BatchRecord(i, c, g) ==
    [ record_id |-> i,
      source |-> BatchInputs[c].source,
      person_id |-> Groupings[g].person_id,
      publication_id |-> Groupings[g].publication_id,
      name_raw |-> BatchInputs[c].name_raw,
      affiliation_raw |-> BatchInputs[c].affiliation_raw ]

Choices == (1 .. Len(BatchInputs)) \X (1 .. Len(Groupings))

ChoiceLeq(a, b) == a[1] < b[1] \/ (a[1] = b[1] /\ a[2] <= b[2])

\* Source argument of the batch call; "" is an omitted source.
BatchSources == {"", "CROSSREF", "ORCID", "ISTINA"}

\* A batch is a list of MaxRecords records.  The passes group the records
\* by key and count votes, so the lists are enumerated up to reordering.
Init ==
    /\ trie = NoTrie
    /\ db = NoDatabase
    /\ \E ch \in [1 .. MaxRecords -> Choices] :
          /\ \A i \in 1 .. (MaxRecords - 1) : ChoiceLeq(ch[i], ch[i + 1])
          /\ records = [i \in 1 .. MaxRecords |-> BatchRecord(i, ch[i][1], ch[i][2])]
    /\ batch_source \in BatchSources
    /\ decisions = <<>>
    /\ passes = <<>>
    /\ call = [name_raw |-> <<>>, affiliation |-> "", source |-> ""]
    /\ pc = "batch"
    /\ parsed = NoParsed
    /\ mode = ""
    /\ feats = DefaultFeatures
    /\ result = NoDecision

\* The config of the batch call and the config a record is decided under.
\* Variant of BatchConfig that takes the config of the first record.
BatchConfig_FirstRecord == get_config(records[1].source)

BatchConfig == get_config(batch_source)

\* Variant of RecConfig that decides every record under the config of the
\* batch call.
RecConfig_BatchOnly(rec, source) == get_config(source)

RecConfig(rec, source) ==
    IF rec.source # "" THEN get_config(rec.source) ELSE get_config(source)

\* local_decision of every sample input under every source argument of the
\* batch call, computed once.
SampleDecisions ==
    [ c \in 1 .. Len(BatchInputs) |->
        [ s \in BatchSources |->
            local_decision(BatchRecord(c, c, 1), RecConfig(BatchRecord(c, c, 1), s)) ] ]

SampleOf(rec) ==
    CHOOSE c \in 1 .. Len(BatchInputs) :
        /\ BatchInputs[c].name_raw = rec.name_raw
        /\ BatchInputs[c].affiliation_raw = rec.affiliation_raw
        /\ BatchInputs[c].source = rec.source

\* One iteration of the loop over the records: the local decision of the
\* next record under the config of its own source tag.
LocalStep ==
    /\ pc = "batch"
    /\ Len(decisions) < Len(records)
    /\ LET rec == records[Len(decisions) + 1]
       IN  decisions' = Append(decisions, SampleDecisions[SampleOf(rec)][batch_source])
    /\ UNCHANGED << records, batch_source, passes, localVars, storeVars >>

AdjustByPerson ==
    /\ pc = "batch"
    /\ Len(decisions) = Len(records)
    /\ Len(passes) < MaxPasses
    /\ decisions' = adjust_by_person(records, decisions, BatchConfig)
    /\ passes' = Append(passes, "person")
    /\ UNCHANGED << records, batch_source, localVars, storeVars >>

AdjustByPublication ==
    /\ pc = "batch"
    /\ Len(decisions) = Len(records)
    /\ Len(passes) < MaxPasses
    /\ decisions' = adjust_by_publication(records, decisions, BatchConfig)
    /\ passes' = Append(passes, "publication")
    /\ UNCHANGED << records, batch_source, localVars, storeVars >>

Next ==
    \/ LocalStep
    \/ AdjustByPerson
    \/ AdjustByPublication

Spec == Init /\ [][Next]_vars

TypeOK ==
    /\ pc \in {"batch", "start", "parsed", "mode", "feats", "done"}
    /\ Len(decisions) <= Len(records)
    /\ Len(passes) <= MaxPasses

\* classify and the batch in one specification.
InitAll == Init \/ InitLocal

NextAll == Next \/ NextLocal

SpecAll == InitAll /\ [][NextAll]_vars

\* The batch and the scorers alone in one specification.
InitScored == Init \/ InitScorer

NextScored == Next \/ NextScorer

SpecScored == InitScored /\ [][NextScored]_vars

\* ======================================================================
\* Properties
\* ======================================================================
Last(seq) == seq[Len(seq)]

MapDone == pc = "batch" /\ Len(decisions) = Len(records)

PersonStep == MapDone /\ passes' = Append(passes, "person")

PubStep == MapDone /\ passes' = Append(passes, "publication")

PersonTag == <<"PERSON_CONSISTENCY_OVERRIDE">>

PubTag == <<"PUB_PATTERN_OVERRIDE">>

\* The local decisions of the batch, recomputed from the records.
LocalDecisions == [i \in DOMAIN records |-> SampleDecisions[SampleOf(records[i])][batch_source]]

Members(key, rid) == { j \in DOMAIN records : records[j][key] = records[rid][key] }

FamVotes(decs, key, rid, thresh) ==
    Cardinality({ j \in Members(key, rid) :
        decs[j].order = "family_first" /\ decs[j].confidence >= thresh })

GivVotes(decs, key, rid, thresh) ==
    Cardinality({ j \in Members(key, rid) :
        decs[j].order = "given_first" /\ decs[j].confidence >= thresh })

\* The order with the strict majority of the identity votes of rid's
\* group, "" when there is none.
PersonDominant(decs, rid) ==
    LET fam == FamVotes(decs, "person_id", rid, BatchConfig.person_conf_thresh)
        giv == GivVotes(decs, "person_id", rid, BatchConfig.person_conf_thresh)
    IN  IF records[rid].person_id = "" THEN ""
        ELSE IF fam > giv THEN "family_first"
        ELSE IF giv > fam THEN "given_first"
        ELSE ""

\* The order leading the publication votes of rid's group by the margin.
PubDominant(decs, rid) ==
    LET fam == FamVotes(decs, "publication_id", rid, BatchConfig.pub_conf_thresh)
        giv == GivVotes(decs, "publication_id", rid, BatchConfig.pub_conf_thresh)
    IN  IF records[rid].publication_id = "" THEN ""
        ELSE IF fam - giv >= BatchConfig.pub_dominance_min_diff THEN "family_first"
        ELSE IF giv - fam >= BatchConfig.pub_dominance_min_diff THEN "given_first"
        ELSE ""

Overridden(d, tag) == Len(d.reason_codes) > 0 /\ Last(d.reason_codes) = tag

\* Shape of the names of the abbreviation short-circuit: two tokens with
\* the second an abbreviation, or three or more with every token after the
\* first an abbreviation.
AbbrevShape(name) ==
    \/ Len(name) = 2 /\ Lexicon[name[2]].initial
    \/ Len(name) >= 3 /\ \A i \in 2 .. Len(name) : Lexicon[name[i]].initial

\* C1: a name of the short-circuit shape is decided family_first with
\* confidence 1.0, whatever the source tag and the affiliation are.
C1_AbbrevFamilyFirst ==
    (pc = "done" /\ AbbrevShape(call.name_raw)) =>
        result.order = "family_first" /\ result.confidence = 10000

C1_Witness ==
    /\ pc = "done"
    /\ call.name_raw = <<"Smith", "W.", "W.">>
    /\ call.source = "ISTINA"
    /\ call.affiliation = "MIT, USA"
    /\ result.confidence = 10000

\* C2: malformed input (fewer than two tokens, or only abbreviation
\* tokens) is answered unknown with confidence 0.
Malformed(name) ==
    Len(name) < 2 \/ \A i \in 1 .. Len(name) : Lexicon[name[i]].initial

C2_MalformedUnknown ==
    (pc = "done" /\ Malformed(call.name_raw)) =>
        result.order = "unknown" /\ result.confidence = 0

\* C3: the mode of every returned decision is CHINESE, WESTERN or MIXED.
C3_ModeInEnum ==
    pc = "done" => result.mode \in {"CHINESE", "WESTERN", "MIXED"}

\* C4: every decision returned by classify, and every decision of a batch
\* before and after any sequence of consistency passes, has a confidence
\* within [0, 1] and an order among family_first, given_first, unknown.
InRange(d) ==
    /\ d.confidence >= 0
    /\ d.confidence <= 10000
    /\ d.order \in {"family_first", "given_first", "unknown"}

C4_ConfidenceAndOrderInRange ==
    /\ pc = "done" => InRange(result)
    /\ \A rid \in DOMAIN decisions : InRange(decisions[rid])

C4_Witness ==
    /\ passes = <<"person", "publication">>
    /\ \E rid \in DOMAIN decisions : Overridden(decisions[rid], PersonTag)
    /\ \E rid \in DOMAIN decisions : Overridden(decisions[rid], PubTag)

\* C5 as stated: no pass alters a decision whose confidence is at or above
\* the override floor of that pass.
C5_OverrideSafety ==
    [][ \A rid \in DOMAIN decisions :
          \/ PersonStep /\ decisions[rid].confidence >= BatchConfig.person_override_thresh
          \/ PubStep /\ decisions[rid].confidence >= BatchConfig.pub_override_thresh
          => decisions'[rid] = decisions[rid] ]_vars

\* C5 amended: no pass alters a decision whose order is not unknown and
\* whose confidence is at or above the override floor of that pass.
C5_OverrideSafetyKnownOrder ==
    [][ \A rid \in DOMAIN decisions :
          /\ decisions[rid].order # "unknown"
          /\ \/ PersonStep /\ decisions[rid].confidence >= BatchConfig.person_override_thresh
             \/ PubStep /\ decisions[rid].confidence >= BatchConfig.pub_override_thresh
          => decisions'[rid] = decisions[rid] ]_vars

\* A pass has overridden one member of a group and left alone another whose
\* local confidence sits exactly on the floor.
C5_Witness ==
    /\ passes = <<"person">>
    /\ \E a, b \in DOMAIN decisions :
          /\ records[a].person_id = "P1" /\ records[b].person_id = "P1"
          /\ Overridden(decisions[a], PersonTag)
          /\ decisions[b].order # "unknown"
          /\ decisions[b].confidence = BatchConfig.person_override_thresh
          /\ decisions[b] = LocalDecisions[b]

\* C6 as stated: on the local decisions of any batch the two passes
\* commute.
PersonThenPub(decs) ==
    adjust_by_publication(records, adjust_by_person(records, decs, BatchConfig), BatchConfig)

PubThenPerson(decs) ==
    adjust_by_person(records, adjust_by_publication(records, decs, BatchConfig), BatchConfig)

C6_PassesCommute ==
    (MapDone /\ passes = <<>>) => PersonThenPub(decisions) = PubThenPerson(decisions)

\* C6 amended: the two passes commute on every batch in which no record
\* carries both an identity id and a publication id.
DisjointKeys ==
    \A i \in DOMAIN records :
        records[i].person_id = "" \/ records[i].publication_id = ""

C6_PassesCommuteOnDisjointKeys ==
    (MapDone /\ passes = <<>> /\ DisjointKeys) =>
        PersonThenPub(decisions) = PubThenPerson(decisions)

C6_Witness ==
    /\ MapDone /\ passes = <<>> /\ DisjointKeys
    /\ \E i, j \in DOMAIN records :
          records[i].person_id # "" /\ records[j].publication_id # ""
    /\ adjust_by_person(records, decisions, BatchConfig) # decisions

\* C7: running a pass again on the map it has just produced changes no
\* decision.
C7_PassIdempotent ==
    [][ (passes # <<>> /\ (PersonStep \/ PubStep) /\ Last(passes') = Last(passes))
          => decisions' = decisions ]_vars

C7_Witness ==
    /\ passes = <<"person", "person">>
    /\ \E rid \in DOMAIN decisions : Overridden(decisions[rid], PersonTag)

\* C8: the identity pass changes a decision only when one order has the
\* strict majority of the votes of its group.
C8_StrictMajorityOnly ==
    [][ PersonStep =>
          \A rid \in DOMAIN decisions :
              decisions'[rid] # decisions[rid] => PersonDominant(decisions, rid) # "" ]_vars

\* C9: the identity pass leaves every member of a group with a majority
\* order whose decision was unknown with that order, the configured
\* override confidence, and its reason codes followed by the
\* identity-consistency tag.
C9_UnknownTakesMajority ==
    [][ PersonStep =>
          \A rid \in DOMAIN decisions :
              (PersonDominant(decisions, rid) # "" /\ decisions[rid].order = "unknown")
              => /\ decisions'[rid].order = PersonDominant(decisions, rid)
                 /\ decisions'[rid].confidence = BatchConfig.person_override_conf
                 /\ decisions'[rid].reason_codes =
                        Append(decisions[rid].reason_codes, PersonTag) ]_vars

\* Two family_first votes and one unknown in one identity group.
C9_Witness ==
    /\ passes = <<"person">>
    /\ \E a, b, c \in DOMAIN decisions :
          /\ a # b
          /\ records[a].person_id = "P1" /\ records[b].person_id = "P1"
          /\ records[c].person_id = "P1"
          /\ LocalDecisions[a].order = "family_first"
          /\ LocalDecisions[a].confidence >= 7000
          /\ LocalDecisions[b].order = "family_first"
          /\ LocalDecisions[b].confidence >= 7000
          /\ LocalDecisions[c].order = "unknown"
          /\ decisions[c].order = "family_first"
          /\ Overridden(decisions[c], PersonTag)

\* C10: in either pass, when a group has a dominant order, every member
\* that is unknown or below the override floor of the pass is replaced by
\* a decision with the dominant order.
C10_LowMembersTakeDominant ==
    [][ \A rid \in DOMAIN decisions :
          /\ PersonStep /\ PersonDominant(decisions, rid) # ""
                /\ (decisions[rid].order = "unknown"
                      \/ decisions[rid].confidence < BatchConfig.person_override_thresh)
             => /\ decisions'[rid].order = PersonDominant(decisions, rid)
                /\ Overridden(decisions'[rid], PersonTag)
                /\ Len(decisions'[rid].reason_codes) = Len(decisions[rid].reason_codes) + 1
          /\ PubStep /\ PubDominant(decisions, rid) # ""
                /\ (decisions[rid].order = "unknown"
                      \/ decisions[rid].confidence < BatchConfig.pub_override_thresh)
             => /\ decisions'[rid].order = PubDominant(decisions, rid)
                /\ Overridden(decisions'[rid], PubTag)
                /\ Len(decisions'[rid].reason_codes) = Len(decisions[rid].reason_codes) + 1
      ]_vars

\* The publication pass has replaced an unknown decision whose local
\* confidence sits exactly on its override floor.
C10_Witness ==
    /\ passes = <<"publication">>
    /\ \E rid \in DOMAIN decisions :
          /\ Overridden(decisions[rid], PubTag)
          /\ LocalDecisions[rid].confidence = BatchConfig.pub_override_thresh

\* C11: the publication pass changes a decision only when the qualifying
\* family_first and given_first votes of its group differ by at least
\* pub_dominance_min_diff, and the new order is the one with more votes.
C11_PubNeedsMargin ==
    [][ PubStep =>
          \A rid \in DOMAIN decisions :
              decisions'[rid] # decisions[rid]
              => /\ PubDominant(decisions, rid) # ""
                 /\ decisions'[rid].order = PubDominant(decisions, rid) ]_vars

\* The publication pass has turned an unknown decision into given_first.
C11_Witness ==
    /\ passes = <<"publication">>
    /\ \E rid \in DOMAIN decisions :
          /\ Overridden(decisions[rid], PubTag)
          /\ decisions[rid].order = "given_first"
          /\ LocalDecisions[rid].order = "unknown"

\* C12: no pass lowers the confidence of any record.
C12_NeverDowngrade ==
    [][ (PersonStep \/ PubStep) =>
          \A rid \in DOMAIN decisions :
              decisions'[rid].confidence >= decisions[rid].confidence ]_vars

\* The identity pass has replaced a decision of known order and raised its
\* confidence.
C12_Witness ==
    /\ passes = <<"person">>
    /\ \E rid \in DOMAIN decisions :
          /\ Overridden(decisions[rid], PersonTag)
          /\ LocalDecisions[rid].order # "unknown"
          /\ decisions[rid].confidence > LocalDecisions[rid].confidence

\* ----------------------------------------------------------- scorers
\* The scores the scorer of the mode accumulates from its arguments.
ScorerScores(m, record, p, f, cfg) ==
    IF m = "CHINESE" THEN ChineseScores(record, p, f, cfg)
    ELSE IF m = "WESTERN" THEN WesternScores(record, p, f, cfg)
    ELSE MixedScores(record, p, f, cfg)

\* The unknown threshold of the mode in the SourceConfig.
ScorerThreshold(m, cfg) ==
    IF m = "CHINESE" THEN cfg.threshold_cn_unknown
    ELSE IF m = "WESTERN" THEN cfg.threshold_west_unknown
    ELSE cfg.threshold_mixed_unknown

\* The gap fam - giv of the scores s is smaller in magnitude than threshold.
SmallGap(s, threshold) == FLess(FAbs(FSub(s.fam, s.giv)), Lit(threshold))

FamilyLeads(s) == FLess(s.giv, s.fam)

\* The gap of the scorer that has run is below its threshold.
ScoredSmallGap ==
    SmallGap(ScorerScores(mode, CallRecord(call), parsed, feats, ScorerConfig),
             ScorerThreshold(mode, ScorerConfig))

ScoredFamilyLeads ==
    FamilyLeads(ScorerScores(mode, CallRecord(call), parsed, feats, ScorerConfig))

\* The confidence each scorer returns on a small gap.
TieConfidence(m) ==
    IF m = "CHINESE" THEN 5000 ELSE IF m = "WESTERN" THEN 5500 ELSE 4000

\* C13 as stated: in each scorer a gap below the unknown threshold of the
\* mode gives order unknown at the fixed confidence of the scorer.
C13_SmallGapUnknown ==
    pc = "done" /\ ScoredSmallGap
    => result.order = "unknown" /\ result.confidence = TieConfidence(mode)

\* C13: a gap below the unknown threshold of the mode gives, whichever
\* score led, order unknown at a fixed confidence in the Chinese (0.5) and
\* Mixed (0.4) scorers, and order given_first at the fixed confidence 0.55
\* in the Western scorer.
C13_SmallGapFixedVerdict ==
    pc = "done" /\ ScoredSmallGap
    => /\ result.confidence = TieConfidence(mode)
       /\ result.order = IF mode = "WESTERN" THEN "given_first" ELSE "unknown"

\* The Western scorer has answered given_first on a small gap in which the
\* family_first score led.
C13_Witness ==
    /\ pc = "done" /\ mode = "WESTERN"
    /\ ScoredSmallGap /\ ScoredFamilyLeads
    /\ result.order = "given_first"

\* No Chinese surname match and no Chinese affiliation in the features.
NoChineseEvidence(f) ==
    ~f.first_is_cn_surname /\ ~f.last_is_cn_surname /\ ~f.cn_affiliation

\* C14: the Western scorer never answers unknown, whatever the features
\* and the SourceConfig; without a Chinese surname match and without a
\* Chinese affiliation it answers given_first.
C14_WesternNeverUnknown ==
    pc = "done" /\ mode = "WESTERN"
    => /\ result.order \in {"family_first", "given_first"}
       /\ NoChineseEvidence(feats) => result.order = "given_first"

\* The Western scorer has answered given_first for features without
\* Chinese evidence in which the first token is a Western surname.
C14_Witness ==
    /\ pc = "done" /\ mode = "WESTERN"
    /\ NoChineseEvidence(feats)
    /\ feats.first_is_west_surname /\ ~feats.last_is_west_surname
    /\ result.order = "given_first"

\* The decision of the abbreviation short-circuit that puts the family
\* name first.
ShortCircuitFamilyFirst(d) ==
    /\ d.order = "family_first"
    /\ d.mode = "ABBREVIATION"
    /\ Len(d.reason_codes) = 1
    /\ d.reason_codes[1][1] \in {"ABBREV", "ABBREV_PLUS"}

\* C15: confidence 1.0 is reserved for the abbreviation short-circuit: a
\* decision returned by a scorer and a decision written by a consistency
\* pass have confidence below 1.0, and a decision of the batch with
\* confidence 1.0 is a family_first decision of the short-circuit.
C15_FullConfidenceReserved ==
    /\ pc = "done" => result.confidence < 10000
    /\ \A rid \in DOMAIN decisions :
          /\ Overridden(decisions[rid], PersonTag) \/ Overridden(decisions[rid], PubTag)
             => decisions[rid].confidence < 10000
          /\ decisions[rid].confidence = 10000 => ShortCircuitFamilyFirst(decisions[rid])

\* After a pass the batch holds a short-circuit decision at confidence 1.0
\* next to a decision the pass has written.
C15_Witness ==
    /\ passes # <<>>
    /\ \E rid \in DOMAIN decisions : decisions[rid].confidence = 10000
    /\ \E rid \in DOMAIN decisions :
          Overridden(decisions[rid], PersonTag) \/ Overridden(decisions[rid], PubTag)

\* -------------------------------------------------------- mode detection
\* The two conditions of the mode decision on totals given in hundredths.
ChineseCondition(cn, west) == cn >= west + 30 /\ cn >= 50

WesternCondition(cn, west) == west >= cn + 30 /\ west >= 50

\* The total a float score stands for: the sum of the weights added to it.
Total(x) == x.h

\* The mode the two totals determine.
ModeByTotals(s) ==
    IF ChineseCondition(Total(s.score_cn), Total(s.score_west)) THEN "CHINESE"
    ELSE IF WesternCondition(Total(s.score_cn), Total(s.score_west)) THEN "WESTERN"
    ELSE "MIXED"

ConditionsExclusive(s) ==
    ~ ( ChineseCondition(Total(s.score_cn), Total(s.score_west))
        /\ WesternCondition(Total(s.score_cn), Total(s.score_west)) )

\* C16: the detected mode is CHINESE exactly when chinese_score >=
\* western_score + 0.3 and chinese_score >= 0.5, WESTERN exactly when the
\* mirrored condition holds, MIXED otherwise, and the two conditions never
\* hold together.
C16_ModeByTotals ==
    pc = "mode"
    => /\ mode = ModeByTotals(ModeScores(CallRecord(call), parsed))
       /\ ConditionsExclusive(ModeScores(CallRecord(call), parsed))

\* ------------------------------------------------------------ map phase
\* The config of the record's own source tag; a record without a source
\* tag is decided under the config of the batch call.
OwnConfig(rec) ==
    IF rec.source = "" THEN BatchConfig ELSE get_config(rec.source)

MapStep == pc = "batch" /\ Len(decisions') = Len(decisions) + 1

\* C18: the map phase gives every record one decision, the local decision
\* of that record alone under its own source config, and deciding a record
\* leaves the decisions of the records before it as they were.
C18_MapPhaseIsLocal ==
    [][ MapStep =>
          /\ Len(decisions') <= Len(records)
          /\ \A i \in DOMAIN decisions : decisions'[i] = decisions[i]
          /\ Last(decisions') = local_decision(records[Len(decisions')],
                                               OwnConfig(records[Len(decisions')])) ]_vars

\* The map phase has ended, no pass has run, and the batch holds a
\* malformed record next to a record of known order whose source differs
\* from the source of the batch call.
C18_Witness ==
    /\ MapDone /\ passes = <<>>
    /\ \E i \in DOMAIN records : records[i].name_raw = <<>>
    /\ \E i \in DOMAIN records :
          /\ records[i].source \notin {"", batch_source}
          /\ decisions[i].order # "unknown"

\* -------------------------------------------------------- preprocessing
\* The flags the lexicon gives the tokens are those of the pattern.
LexiconInitialOK ==
    \A w \in DOMAIN Lexicon : Lexicon[w].initial = InitialPattern(Spelling(w))

\* Positions (from 1) of the tokens of p that are not abbreviations.
ContentPositions(p) == { i \in DOMAIN p.tokens : ~p.tokens[i].is_initial }

\* first_idx and last_idx point at the first and the last member of S.
PointsAtEnds(p, S) ==
    /\ p.first_idx + 1 \in S
    /\ p.last_idx + 1 \in S
    /\ \A i \in S : p.first_idx + 1 <= i /\ i <= p.last_idx + 1
    /\ p.first_idx < p.last_idx

\* C19: preprocess_name keeps one token per piece of the name; with two or
\* more non-abbreviation tokens first_idx and last_idx are the first and
\* the last of them, otherwise with two or more tokens they are 0 and
\* len - 1, and with fewer than two tokens both are -1; the empty name
\* gives no tokens.
C19_ContentIndices ==
    pc # "start"
    => /\ Len(parsed.tokens) = Len(call.name_raw)
       /\ Cardinality(ContentPositions(parsed)) >= 2
          => PointsAtEnds(parsed, ContentPositions(parsed))
       /\ Cardinality(ContentPositions(parsed)) < 2 /\ Len(parsed.tokens) >= 2
          => parsed.first_idx = 0 /\ parsed.last_idx = Len(parsed.tokens) - 1
       /\ Len(parsed.tokens) < 2
          => parsed.first_idx = -1 /\ parsed.last_idx = -1

\* A name that begins with an abbreviation and has two content tokens has
\* been preprocessed.
C19_Witness ==
    /\ pc = "parsed"
    /\ Len(parsed.tokens) = 3
    /\ parsed.tokens[1].is_initial
    /\ parsed.first_idx = 1 /\ parsed.last_idx = 2

\* One or more uppercase letters, each optionally followed by a period.
UppercaseLettersWithPeriods(sp) ==
    /\ Len(sp) >= 1
    /\ sp[1] = "U"
    /\ \A i \in 2 .. Len(sp) : sp[i] = "U" \/ (sp[i] = "." /\ sp[i - 1] = "U")

\* C20: a token is flagged as an abbreviation exactly when it consists of
\* one or more uppercase letters, each optionally followed by a period.
C20_AbbreviationFlag ==
    pc # "start"
    => \A i \in DOMAIN parsed.tokens :
          parsed.tokens[i].is_initial
          <=> UppercaseLettersWithPeriods(Spelling(parsed.tokens[i].raw))

\* ------------------------------------------------ affiliation evidence
\* The features f with the Chinese-affiliation feature switched.
ToggleAffiliation(f) == [f EXCEPT !.cn_affiliation = ~@]

\* The gap between the two scores as the sum of the weights added, that
\* is, without the rounding error of the float subtraction.
Gap(s) == Total(FSub(s.fam, s.giv))

\* Two decisions agree in order and confidence.
SameVerdict(d1, d2) == d1.order = d2.order /\ d1.confidence = d2.confidence

\* The scorer of mode m returns the same gap, order and confidence on f
\* and on f with the Chinese-affiliation feature switched.
AffiliationNeutral(m, record, p, f, cfg) ==
    /\ Gap(ScorerScores(m, record, p, f, cfg))
         = Gap(ScorerScores(m, record, p, ToggleAffiliation(f), cfg))
    /\ SameVerdict(Decide(record, p, f, cfg, m),
                   Decide(record, p, ToggleAffiliation(f), cfg, m))

\* C21 as stated: in the Chinese and the Mixed scorer switching the
\* Chinese-affiliation feature changes neither the gap nor the order nor
\* the confidence.
C21_AffiliationNeutral ==
    pc = "done" /\ mode \in {"CHINESE", "MIXED"}
    => AffiliationNeutral(mode, CallRecord(call), parsed, feats, ScorerConfig)

\* C21: switching the Chinese-affiliation feature changes neither the gap
\* nor the order nor the confidence in the Chinese scorer, and in the Mixed
\* scorer when both or neither of the content tokens are Chinese surnames.
C21_AffiliationNeutralUnlessOneSurname ==
    pc = "done"
       /\ \/ mode = "CHINESE"
          \/ mode = "MIXED" /\ feats.first_is_cn_surname = feats.last_is_cn_surname
    => AffiliationNeutral(mode, CallRecord(call), parsed, feats, ScorerConfig)

\* The Chinese scorer has decided family_first on features with a Chinese
\* affiliation, which it has added to both scores.
C21_Witness ==
    /\ pc = "done" /\ mode = "CHINESE"
    /\ feats.cn_affiliation
    /\ result.order = "family_first"
    /\ \E i \in DOMAIN result.reason_codes : result.reason_codes[i] = <<"CN_AFFILIATION">>

\* -------------------------------------------------------- double surname
\* The features f with neither content token a Chinese surname.
WithoutSurnames(f) ==
    [f EXCEPT !.first_is_cn_surname = FALSE, !.last_is_cn_surname = FALSE]

\* What the scores s have gained over the scores b.
Gain(s, b) ==
    [ fam |-> Total(s.fam) - Total(b.fam), giv |-> Total(s.giv) - Total(b.giv) ]

\* The double-surname bump: what the Chinese scorer adds to the scores for
\* two surname tokens.
DoubleBump(record, p, f, cfg) ==
    Gain(ChineseScores(record, p, f, cfg),
         ChineseScores(record, p, WithoutSurnames(f), cfg))

FamilyBump == [fam |-> 150, giv |-> 0]

GivenBump == [fam |-> 0, giv |-> 150]

RankGap(p) ==
    Abs(get_surname_frequency_rank(p.tokens[p.first_idx + 1].ascii)
          - get_surname_frequency_rank(p.tokens[p.last_idx + 1].ascii))

FirstMoreCommon(p) ==
    get_surname_frequency_rank(p.tokens[p.first_idx + 1].ascii)
      < get_surname_frequency_rank(p.tokens[p.last_idx + 1].ascii)

\* C22: with two surname tokens the Chinese scorer bumps family_first for
\* an ISTINA source, and for any other source bumps family_first when the
\* rank gap is at most 20 or the first token is the more common surname,
\* and given_first when the gap is above 20 and the last token is the more
\* common one.
C22_DoubleSurnameBump ==
    pc = "done" /\ mode = "CHINESE"
       /\ feats.first_is_cn_surname /\ feats.last_is_cn_surname
    => DoubleBump(CallRecord(call), parsed, feats, ScorerConfig)
         = IF IsIstinaSource(call.source) THEN FamilyBump
           ELSE IF RankGap(parsed) <= 20 THEN FamilyBump
           ELSE IF FirstMoreCommon(parsed) THEN FamilyBump
           ELSE GivenBump

\* The Chinese scorer has bumped given_first for two surname tokens of
\* which the first is unranked, from a source that is not ISTINA.
C22_Witness ==
    /\ pc = "done" /\ mode = "CHINESE"
    /\ feats.first_is_cn_surname /\ feats.last_is_cn_surname
    /\ call.source = "CROSSREF"
    /\ call.name_raw = <<"Tianxiang", "Liu">>
    /\ DoubleBump(CallRecord(call), parsed, feats, ScorerConfig) = GivenBump

\* ------------------------------------------------- written by a pass
\* The decision new replaces old with the override confidence conf and the
\* tag of the pass, and nothing else changed but the order.
WrittenAs(old, new, conf, tag) ==
    /\ new.confidence = conf
    /\ new.mode = old.mode
    /\ new.reason_codes = Append(old.reason_codes, tag)

\* C23: every Decision a consistency pass writes has the override
\* confidence of that pass in the batch config, the mode of the Decision it
\* replaces, and that Decision's reason codes followed by the one tag of
\* the pass.
C23_WrittenDecisionShape ==
    [][ \A i \in DOMAIN decisions :
          /\ PersonStep /\ decisions'[i] # decisions[i]
             => WrittenAs(decisions[i], decisions'[i],
                          BatchConfig.person_override_conf, PersonTag)
          /\ PubStep /\ decisions'[i] # decisions[i]
             => WrittenAs(decisions[i], decisions'[i],
                          BatchConfig.pub_override_conf, PubTag) ]_vars

\* The identity pass, run first, has replaced an unknown local decision.
C23_Witness ==
    /\ pc = "batch" /\ Len(passes) = 1
    /\ \E i \in DOMAIN decisions :
         /\ LocalDecisions[i].order = "unknown"
         /\ decisions[i].order # "unknown"
         /\ passes = <<"person">>
         /\ WrittenAs(LocalDecisions[i], decisions[i],
                      BatchConfig.person_override_conf, PersonTag)

\* ------------------------------------------------------ pinyin validator
\* Tokens are sequences of characters.  "X" is an upper-case letter, "u:"
\* the letter u with diaeresis, which is neither upper-case nor in a-z.
MaxChars == 4

Characters == {"x", "i", "a", "n", "X", "-", "'", "u:"}

AsciiLower == {"x", "i", "a", "n"}

\* A sample of the syllable table: an, xi, xian and nu with diaeresis.
PINYIN_SYLLABLES ==
    { <<"a", "n">>, <<"x", "i">>, <<"x", "i", "a", "n">>, <<"n", "u:">> }

\* The orders in which the loop over the table may meet the syllables.
IterationOrders ==
    { o \in [1 .. Cardinality(PINYIN_SYLLABLES) -> PINYIN_SYLLABLES] :
        \A a, b \in DOMAIN o : a # b => o[a] # o[b] }

PinyinTokens == UNION { [1 .. n -> Characters] : n \in 0 .. MaxChars }

\* token.lower().replace('-', '').replace("'", '')
NormalizeToken(token) ==
    SelectSeq([k \in DOMAIN token |-> IF token[k] = "X" THEN "x" ELSE token[k]],
              LAMBDA c : c \notin {"-", "'"})

\* re.fullmatch(r'[a-z]+', t)
MatchesAZ(t) == Len(t) > 0 /\ \A k \in DOMAIN t : t[k] \in AsciiLower

NoSegmentation == [is_valid |-> FALSE, count |-> 0, syllables |-> <<>>]

\* The tables before the loops; index i of the code is index i + 1 here.
EmptyTable(n) ==
    [ dp |-> [i \in 1 .. n + 1 |-> i = 1],
      syllables_count |-> [i \in 1 .. n + 1 |-> 0],
      parent |-> [i \in 1 .. n + 1 |-> -1],
      used_syllable |-> [i \in 1 .. n + 1 |-> <<>>] ]

\* The two nested loops, from position i and the k-th syllable on.
RECURSIVE FillTable(_, _, _, _, _)
FillTable(t, order, i, k, st) ==
    IF i >= Len(t) THEN st
    ELSE IF ~st.dp[i + 1] \/ k > Len(order) THEN FillTable(t, order, i + 1, 1, st)
    ELSE LET syllable == order[k]
             j == i + Len(syllable)
         IN  IF j <= Len(t) /\ SubSeq(t, i + 1, j) = syllable /\ ~st.dp[j + 1]
             THEN FillTable(t, order, i, k + 1,
                    [ dp |-> [st.dp EXCEPT ![j + 1] = TRUE],
                      syllables_count |->
                        [st.syllables_count EXCEPT ![j + 1] = st.syllables_count[i + 1] + 1],
                      parent |-> [st.parent EXCEPT ![j + 1] = i],
                      used_syllable |-> [st.used_syllable EXCEPT ![j + 1] = syllable] ])
             ELSE FillTable(t, order, i, k + 1, st)

\* The walk back along parent, collecting the syllables in reading order.
RECURSIVE Backtrack(_, _, _)
Backtrack(st, pos, syllables) ==
    IF pos <= 0 THEN syllables
    ELSE Backtrack(st, st.parent[pos + 1], <<st.used_syllable[pos + 1]>> \o syllables)

Segmentation(n, st) ==
    [ is_valid |-> st.dp[n + 1],
      count |-> st.syllables_count[n + 1],
      syllables |-> IF st.dp[n + 1] THEN Backtrack(st, n, <<>>) ELSE <<>> ]

SegmentNormalized(t, order) ==
    IF ~MatchesAZ(t) THEN NoSegmentation
    ELSE Segmentation(Len(t), FillTable(t, order, 0, 1, EmptyTable(Len(t))))

segment_pinyin(token, order) == SegmentNormalized(NormalizeToken(token), order)

InitPinyin ==
    /\ trie = NoTrie
    /\ db = NoDatabase
    /\ call \in [token : PinyinTokens, order : IterationOrders]
    /\ pc = "segment"
    /\ parsed = NoParsed
    /\ mode = ""
    /\ feats = DefaultFeatures
    /\ result = NoSegmentation
    /\ records = <<>>
    /\ batch_source = ""
    /\ decisions = <<>>
    /\ passes = <<>>

SegmentPinyin ==
    /\ pc = "segment"
    /\ result' = segment_pinyin(call.token, call.order)
    /\ pc' = "segmented"
    /\ UNCHANGED << call, parsed, mode, feats, batchVars, storeVars >>

NextPinyin == SegmentPinyin

SpecPinyin == InitPinyin /\ [][NextPinyin]_vars

\* t is one or more syllables of the table written one after the other.
RECURSIVE CanPartition(_)
CanPartition(t) ==
    \E k \in 1 .. Len(t) :
        /\ SubSeq(t, 1, k) \in PINYIN_SYLLABLES
        /\ k = Len(t) \/ CanPartition(SubSeq(t, k + 1, Len(t)))

RECURSIVE Concat(_)
Concat(seqs) == IF seqs = <<>> THEN <<>> ELSE Head(seqs) \o Concat(Tail(seqs))

\* One fixed order of the table.
FixedOrder == CHOOSE o \in IterationOrders : TRUE

SegmentedAs(t, r, fixed) ==
    /\ r.is_valid <=> CanPartition(t)
    /\ r.is_valid =>
         /\ \A k \in DOMAIN r.syllables : r.syllables[k] \in PINYIN_SYLLABLES
         /\ Concat(r.syllables) = t
         /\ r.count = Len(r.syllables)
    /\ r = fixed

\* C24: segment_pinyin reports a token valid exactly when the normalized
\* token is a concatenation of syllables of the table; a valid result
\* lists legal syllables that concatenate to the normalized token, with
\* their number as count; and the result is the same for every iteration
\* order of the table.
C24_SegmentsExactly ==
    pc = "segmented"
    => SegmentedAs(NormalizeToken(call.token), result,
                   segment_pinyin(call.token, FixedOrder))

\* ----------------------------------------------------------- surname trie
\* Surnames are sequences of Han characters; "Li", "Ou", "Yang", "Si" and
\* "Ma" each stand for one character.  A TrieNode is named by the path
\* that leads to it from the root: nodes holds the paths of the nodes,
\* ends those marked as the end of a surname (every insert carries a
\* non-empty surname_data).
MaxInserts == 3

TrieChars == {"Li", "Ou", "Yang", "Si", "Ma"}

TrieSurnames == { <<"Li">>, <<"Ou">>, <<"Ou", "Yang">>, <<"Si", "Ma">> }

\* Arguments of remove: the surnames, the empty string, a proper prefix of
\* a surname and a string that is no surname.
TrieQueries == TrieSurnames \cup { <<>>, <<"Si">>, <<"Yang">> }

EmptyTrie ==
    [ nodes |-> {<<>>}, ends |-> {},
      surname_count |-> 0, max_surname_length |-> 0, compound_surnames_count |-> 0 ]

Prefixes(s) == { SubSeq(s, 1, k) : k \in 0 .. Len(s) }

HasChildren(t, node) == \E c \in TrieChars : Append(node, c) \in t.nodes

insert(t, surname) ==
    IF surname = <<>> THEN t
    ELSE [ nodes |-> t.nodes \cup Prefixes(surname),
           ends |-> t.ends \cup {surname},
           surname_count |-> t.surname_count + 1,
           max_surname_length |-> Max(t.max_surname_length, Len(surname)),
           compound_surnames_count |->
               t.compound_surnames_count + (IF Len(surname) > 1 THEN 1 ELSE 0) ]

\* search(query) is not None
contains(t, surname) ==
    /\ surname # <<>>
    /\ Prefixes(surname) \subseteq t.nodes
    /\ surname \in t.ends

\* _remove_recursive on the node at the given depth of the surname's path:
\* the trie it leaves and the value it returns.
RECURSIVE RemoveRecursive(_, _, _)
RemoveRecursive(t, surname, depth) ==
    LET node == SubSeq(surname, 1, depth)
        child == SubSeq(surname, 1, depth + 1)
    IN  IF depth = Len(surname)
        THEN IF node \notin t.ends
             THEN [trie |-> t, ret |-> FALSE]
             ELSE [trie |-> [t EXCEPT !.ends = @ \ {node}], ret |-> ~HasChildren(t, node)]
        ELSE IF child \notin t.nodes
        THEN [trie |-> t, ret |-> FALSE]
        ELSE LET below == RemoveRecursive(t, surname, depth + 1)
                 pruned == [below.trie EXCEPT !.nodes = @ \ {child}]
             IN  IF below.ret
                 THEN [ trie |-> pruned,
                        ret |-> /\ node \notin pruned.ends
                                /\ ~HasChildren(pruned, node)
                                /\ node # <<>> ]
                 ELSE [trie |-> below.trie, ret |-> FALSE]

remove(t, surname) ==
    IF surname = <<>> THEN [trie |-> t, ret |-> FALSE]
    ELSE LET top == RemoveRecursive(t, surname, 0)
         IN  IF top.ret
             THEN [ trie |-> [top.trie EXCEPT
                                !.surname_count = @ - 1,
                                !.compound_surnames_count =
                                    @ - (IF Len(surname) > 1 THEN 1 ELSE 0)],
                    ret |-> TRUE ]
             ELSE [trie |-> top.trie, ret |-> FALSE]

\* The walk of find_longest_prefix from the node reached after i characters.
RECURSIVE LongestFrom(_, _, _, _)
LongestFrom(t, text, i, longest_match) ==
    IF i >= Len(text) \/ SubSeq(text, 1, i + 1) \notin t.nodes THEN longest_match
    ELSE LongestFrom(t, text, i + 1,
                     IF SubSeq(text, 1, i + 1) \in t.ends
                     THEN SubSeq(text, 1, i + 1) ELSE longest_match)

\* find_longest_prefix: the matched surname, <<>> for None.
find_longest_prefix(t, text) == LongestFrom(t, text, 0, <<>>)

InitTrie ==
    /\ trie = EmptyTrie
    /\ db = NoDatabase
    /\ call = [op |-> "new", surname |-> <<>>]
    /\ pc = "trie"
    /\ parsed = NoParsed
    /\ mode = ""
    /\ feats = DefaultFeatures
    /\ result = FALSE
    /\ records = <<>>
    /\ batch_source = ""
    /\ decisions = <<>>
    /\ passes = <<>>

TrieInsert ==
    /\ pc = "trie"
    /\ trie.surname_count < MaxInserts
    /\ \E s \in TrieSurnames \cup {<<>>} :
         /\ trie' = insert(trie, s)
         /\ call' = [op |-> "insert", surname |-> s]
    /\ result' = FALSE
    /\ UNCHANGED << pc, parsed, mode, feats, batchVars, db >>

TrieRemove ==
    /\ pc = "trie"
    /\ \E s \in TrieQueries :
         /\ trie' = remove(trie, s).trie
         /\ result' = remove(trie, s).ret
         /\ call' = [op |-> "remove", surname |-> s]
    /\ UNCHANGED << pc, parsed, mode, feats, batchVars, db >>

NextTrie == TrieInsert \/ TrieRemove

SpecTrie == InitTrie /\ [][NextTrie]_vars

\* C26: remove(s) returns True exactly when s was stored before the call,
\* and a call on a stored s leaves s not contained and every other stored
\* surname contained.
C26_RemoveReportsStored ==
    [][ pc = "trie" /\ call'.op = "remove"
        => /\ result' = contains(trie, call'.surname)
           /\ contains(trie, call'.surname)
              => /\ ~contains(trie', call'.surname)
                 /\ \A o \in TrieSurnames \ {call'.surname} :
                        contains(trie, o) => contains(trie', o) ]_vars

\* ------------------------------------------------------ surname database
\* SurnameDatabase: surnames is the key set of _surnames, compound_surnames
\* the list _compound_surnames, trie_enabled the flag; the variable trie
\* holds its _trie (NoTrie when the Trie is disabled).
MaxTextLen == 2

SurnameTexts == UNION { [1 .. n -> TrieChars] : n \in 0 .. MaxTextLen }

NoMatch == [surname |-> <<>>, length |-> 0]

SurnameFound(surname) == [surname |-> surname, length |-> Len(surname)]

IsCompound(surname) == Len(surname) > 1

MaxSurnameLen == SetMax({ Len(x) : x \in TrieSurnames })

\* list.sort(key=len, reverse=True): stable, longest first.
RECURSIVE SortByLenFrom(_, _)
SortByLenFrom(list, n) ==
    IF n = 0 THEN <<>>
    ELSE SelectSeq(list, LAMBDA x : Len(x) = n) \o SortByLenFrom(list, n - 1)

SortByLen(list) == SortByLenFrom(list, MaxSurnameLen)

\* The lists _load_surnames_from_dict can leave for the surnames of a dict,
\* whose order the list follows before it is sorted.
CompoundLists(surnames) ==
    LET compounds == { x \in surnames : IsCompound(x) }
    IN  { SortByLen(l) : l \in { m \in [1 .. Cardinality(compounds) -> compounds] :
                                   \A a, b \in DOMAIN m : a # b => m[a] # m[b] } }

RECURSIVE InsertAll(_, _)
InsertAll(t, surnames) ==
    IF surnames = {} THEN t
    ELSE LET x == CHOOSE y \in surnames : TRUE
         IN  InsertAll(insert(t, x), surnames \ {x})

\* _build_trie: a new Trie holding every surname of the database.
build_trie(surnames) == InsertAll(EmptyTrie, surnames)

add_surname(d, surname) ==
    [ d EXCEPT
        !.surnames = @ \cup {surname},
        !.compound_surnames =
            IF IsCompound(surname) /\ \A k \in DOMAIN @ : @[k] # surname
            THEN SortByLen(Append(@, surname))
            ELSE @ ]

RECURSIVE FirstCompound(_, _, _)
FirstCompound(list, text, k) ==
    IF k > Len(list) THEN <<>>
    ELSE IF Len(list[k]) <= Len(text) /\ SubSeq(text, 1, Len(list[k])) = list[k]
    THEN list[k]
    ELSE FirstCompound(list, text, k + 1)

linear_surname_search(d, text) ==
    IF FirstCompound(d.compound_surnames, text, 1) # <<>>
    THEN SurnameFound(FirstCompound(d.compound_surnames, text, 1))
    ELSE IF text # <<>> /\ <<text[1]>> \in d.surnames
    THEN SurnameFound(<<text[1]>>)
    ELSE NoMatch

find_surname_in_text(d, t, text) ==
    IF text = <<>> THEN NoMatch
    ELSE IF d.trie_enabled
    THEN IF find_longest_prefix(t, text) # <<>>
         THEN SurnameFound(find_longest_prefix(t, text))
         ELSE NoMatch
    ELSE linear_surname_search(d, text)

InitDatabase ==
    /\ \E surnames \in SUBSET TrieSurnames \ {{}}, enable_trie \in BOOLEAN :
         /\ \E list \in CompoundLists(surnames) :
              db = [ surnames |-> surnames, compound_surnames |-> list,
                     trie_enabled |-> enable_trie ]
         /\ trie = IF enable_trie THEN build_trie(surnames) ELSE NoTrie
    /\ call = [op |-> "new", text |-> <<>>]
    /\ pc = "database"
    /\ parsed = NoParsed
    /\ mode = ""
    /\ feats = DefaultFeatures
    /\ result = NoMatch
    /\ records = <<>>
    /\ batch_source = ""
    /\ decisions = <<>>
    /\ passes = <<>>

AddSurname ==
    /\ pc = "database"
    /\ \E s \in TrieSurnames :
         /\ db' = add_surname(db, s)
         /\ call' = [op |-> "add_surname", text |-> s]
    /\ result' = NoMatch
    /\ UNCHANGED << pc, parsed, mode, feats, batchVars, trie >>

FindSurnameInText ==
    /\ pc = "database"
    /\ \E text \in SurnameTexts :
         /\ result' = find_surname_in_text(db, trie, text)
         /\ call' = [op |-> "find_surname_in_text", text |-> text]
    /\ UNCHANGED << pc, parsed, mode, feats, batchVars, storeVars >>

NextDatabase == AddSurname \/ FindSurnameInText

SpecDatabase == InitDatabase /\ [][NextDatabase]_vars

IsPrefix(surname, text) ==
    Len(surname) <= Len(text) /\ SubSeq(text, 1, Len(surname)) = surname

\* The longest surname of the set that is a prefix of the text.
LongestKnownPrefix(surnames, text) ==
    LET found == { x \in surnames : IsPrefix(x, text) }
    IN  IF found = {} THEN NoMatch
        ELSE SurnameFound(CHOOSE x \in found : \A y \in found : Len(y) <= Len(x))

\* C25: whatever surnames were added, find_surname_in_text returns what
\* the linear search over the current surnames returns, the longest known
\* surname that is a prefix of the text, with the Trie enabled or not.
C25_TrieMatchesLinear ==
    pc = "database" /\ call.op = "find_surname_in_text"
    => /\ result = linear_surname_search(db, call.text)
       /\ result = LongestKnownPrefix(db.surnames, call.text)

\* ----------------------------------------------------------- source tags
\* What the source tag of the record adds to the two totals of detect_mode.
SourceNudge(with, without) ==
    [ cn |-> Total(with.score_cn) - Total(without.score_cn),
      west |-> Total(with.score_west) - Total(without.score_west) ]

PriorNudge(record, p) ==
    SourceNudge(ModeScores(record, p), ModeScores([record EXCEPT !.source = ""], p))

\* C27: a source tag that get_config maps to the ISTINA bundle gets the
\* ISTINA nudge (0.2 on the Chinese total) in detect_mode and the
\* family_first default of the double-surname rule in the Chinese scorer;
\* one that it maps to the Crossref or ORCID bundle gets the Western nudge
\* (0.2 on the Western total).
C27_SourceTagsConsistent ==
    pc \in {"mode", "feats", "done"} /\ parsed.first_idx >= 0
    => /\ get_config(call.source) = ISTINA_CONFIG
          => PriorNudge(CallRecord(call), parsed).cn = 20
       /\ get_config(call.source) \in {CROSSREF_CONFIG, ORCID_CONFIG}
          => PriorNudge(CallRecord(call), parsed).west = 20
       /\ /\ pc = "done" /\ mode = "CHINESE"
          /\ feats.first_is_cn_surname /\ feats.last_is_cn_surname
          /\ get_config(call.source) = ISTINA_CONFIG
          => DoubleBump(CallRecord(call), parsed, feats, get_config(call.source))
               = FamilyBump

\* ------------------------------------------------------- one override
\* How many times the tag occurs in the reason codes.
TagCount(codes, tag) == Cardinality({ k \in DOMAIN codes : codes[k] = tag })

\* C28: after the identity pass followed by the publication pass, the two
\* passes of one batch run, no reason-code list holds both override tags
\* or one of them twice.
C28_OverriddenAtMostOnce ==
    pc = "batch" /\ passes = <<"person", "publication">>
    => \A i \in DOMAIN decisions :
         TagCount(decisions[i].reason_codes, PersonTag)
           + TagCount(decisions[i].reason_codes, PubTag) <= 1

\* Both passes of one run have overridden a decision: one record carries
\* the identity tag and another the publication tag.
C28_Witness ==
    /\ pc = "batch" /\ passes = <<"person", "publication">>
    /\ \E i, j \in DOMAIN decisions :
         /\ TagCount(decisions[i].reason_codes, PersonTag) = 1
         /\ TagCount(decisions[j].reason_codes, PubTag) = 1

\* ------------------------------------------------------ which config
\* The config of the record's own source tag, that of the batch call for a
\* record without a tag.
ConfigOfRecord(rec) ==
    get_config(IF rec.source # "" THEN rec.source ELSE batch_source)

\* C29: in a batch run each local decision is taken under the config of
\* the record's own source tag when it has one, and each consistency pass
\* works, for every group, with the thresholds of the config of the source
\* argument of the batch call, whatever the tags of the records are.
C29_ConfigPerPhase ==
    [][ /\ MapStep
           => Last(decisions') = local_decision(records[Len(decisions')],
                                                ConfigOfRecord(records[Len(decisions')]))
        /\ PersonStep
           => decisions' = adjust_by_person(records, decisions, get_config(batch_source))
        /\ PubStep
           => decisions' = adjust_by_publication(records, decisions,
                                                 get_config(batch_source)) ]_vars

\* The identity pass has overridden the decision of a record whose own
\* source tag selects a config with another override confidence than the
\* config of the batch call, and wrote the confidence of the latter.
C29_Witness ==
    /\ pc = "batch" /\ passes = <<"person">>
    /\ \E i \in DOMAIN decisions :
         /\ records[i].source # ""
         /\ get_config(records[i].source).person_override_conf
              # get_config(batch_source).person_override_conf
         /\ TagCount(decisions[i].reason_codes, PersonTag) = 1
         /\ decisions[i].confidence = get_config(batch_source).person_override_conf

\* ------------------------------------------------- reversed abbreviation
\* Two tokens, the first an abbreviation and the second not.
ReversedShape(name) ==
    Len(name) = 2 /\ Lexicon[name[1]].initial /\ ~Lexicon[name[2]].initial

\* C30: a two-token name whose first token is an abbreviation and whose
\* second is not is decided given_first with confidence 0.85, without mode
\* detection or feature extraction, whatever the source tag and the
\* affiliation are.
C30_ReversedAbbreviation ==
    pc = "done" /\ ReversedShape(call.name_raw)
    => /\ result.order = "given_first"
       /\ result.confidence = 8500
       /\ mode = ""
       /\ feats = DefaultFeatures

\* "W. Liu" from ISTINA with a Chinese affiliation was decided given_first.
C30_Witness ==
    /\ pc = "done"
    /\ call.name_raw = <<"W.", "Liu">>
    /\ call.source = "ISTINA"
    /\ call.affiliation = "Tsinghua University, Beijing"
    /\ result.order = "given_first"
    /\ result.confidence = 8500

====
